---- MODULE Spec2Model ----
(***************************************************************************)
(* A model of the fluentd-go event pipeline (package plugin): the bounded  *)
(* Queue, the input / filter / output plugins and the Fluentd orchestrator.*)
(*                                                                         *)
(* Three specifications share one state:                                   *)
(*   SpecQueue  goroutines calling Put / Get / Close on one Queue, with    *)
(*              the mutex and every statement of the critical sections as  *)
(*              separate steps;                                            *)
(*   SpecOutput a Fluentd with one FileOutput and an upstream producer;    *)
(*   Spec       the pipeline wired as in cmd.run, driven by Fluentd.Start  *)
(*              and Fluentd.Stop.                                          *)
(***************************************************************************)
EXTENDS Integers, Sequences, FiniteSets, TLC

(***************************************************************************)
(* Bounds of the model.                                                    *)
(***************************************************************************)
\* capacity argument of NewQueue (cmd.run passes 1000)
Capacity == 2
\* number of goroutines that call the queue concurrently in SpecQueue
NumCallers == 2
\* total number of Put / Get / Close calls issued in SpecQueue
MaxOps == 4
\* total number of Fluentd.Start / Fluentd.Stop calls issued
MaxCalls == 2
\* total number of events created
MaxEvents == 2
\* bufferSize argument of NewStdoutOutput / NewFileOutput (cmd.run passes 10)
BufferSize == 2
\* total number of events put on the filter's input queue in SpecFilter
MaxFiltered == 3
\* total number of lines sent and file chunks appended in Spec
MaxInput == 1
\* total number of lines the clients send in SpecTcp
MaxLines == 2
\* total number of changes the environment makes to the watched directory in
\* SpecScan
MaxDirOps == 3

(***************************************************************************)
(* Events (event.go).                                                      *)
(***************************************************************************)
EmptyRecord == [k \in {} |-> [str |-> TRUE, text |-> <<>>]]

\* the nil *Event
Nil == [id |-> 0, tag |-> <<>>, record |-> EmptyRecord]

\* NewEvent(tag, record); id stands for the pointer identity of the event
NewEvent(id, tag, record) == [id |-> id, tag |-> tag, record |-> record]

\* strings are sequences of characters; the tags the configuration gives
TagApp == <<"a", "p", "p">>
TagNet == <<"n", "e", "t">>

\* a record value: a Go string, or a value of another type
StringValue(text) == [str |-> TRUE, text |-> text]

\* the record a TailInput / TcpInput gives an event: {"message": line}
MessageRecord(line) == [k \in {"message"} |-> StringValue(line)]

(***************************************************************************)
(* State.                                                                  *)
(***************************************************************************)
QueueIds == {"inputQueue", "outputQueue"}

Callers == 1..NumCallers

NoHolder == 0

VARIABLES
    \* Queue.ch : the buffered channel, its buffer and whether close(ch) ran
    ch,
    \* Queue.closed
    closed,
    \* Queue.mu : NoHolder or the goroutine holding the mutex
    mu,
    \* a send on a closed channel or a second close(ch) happened (Go panics)
    panicked,
    \* a receive case fired on a channel that close(ch) had closed
    recvOnClosed,
    \* history: events whose Put returned true / that a Get returned, in order
    accepted,
    delivered,
    \* SpecQueue: position of each calling goroutine in Put / Get / Close
    gpc,
    \* SpecQueue: the call in progress: [op, event]
    gcall,
    \* SpecQueue: the value the last finished call returned: [event, ok]
    gret,
    \* SpecQueue: whether Queue.closed was already set when the call was made
    gclosedAtCall,
    \* SpecQueue: number of calls issued so far
    nOps

VARIABLES
    \* Fluentd.inputs, Fluentd.filters, Fluentd.outputs, Fluentd.queues
    inputs,
    filters,
    outputs,
    queues,
    \* the fields each filter was constructed with: matchTags; key, pattern and
    \* exclude of a GrepFilter; addFields and removeFields of a
    \* RecordTransformerFilter
    fcfg,
    \* Fluentd.running
    frunning,
    \* Fluentd.mu : NoHolder or the caller holding it
    fmu,
    \* position of each goroutine that calls Fluentd.Start / Fluentd.Stop
    cpc,
    \* the call it makes: "Start" or "Stop"
    cop,
    \* index of the plugin the running Start / Stop body has reached
    fidx,
    \* number of Start / Stop calls issued so far
    nCalls,
    \* history: the plugins whose Start / Stop the current or last
    \* Fluentd.Start / Fluentd.Stop body has invoked, in order
    startLog,
    stopLog,
    \* the running flag of each plugin (BaseInput / BaseFilter / BaseOutput)
    running,
    \* the WaitGroup counter of each plugin
    wg,
    \* position of the goroutine each plugin's Start spawned
    wpc,
    \* history: Stop of the plugin has returned and its Start has not run since
    stopReturned

VARIABLES
    \* BaseOutput.buffer
    buffer,
    \* the local `buffer` of the output goroutine, taken by GetBuffer
    batch,
    \* time.Since(o.lastFlush) >= o.flushInterval
    elapsed,
    \* ticker.C of the output goroutine holds a tick
    tickReady,
    \* history: the batches passed to Flush, and the events added to the buffer
    flushes,
    added,
    \* history: the buffer and the number of Flush calls when Stop cleared
    \* the running flag
    residual,
    flushesAtStop,
    \* history: the batches for which Flush returned an error
    flushErrs,
    \* number of events created so far
    nEvents

VARIABLES
    \* the event a filter goroutine holds between Get and Put
    fheld,
    \* TcpInput.listener: "none", "open" or "closed"
    listener,
    \* each client connection: "none", "pending" (not yet accepted), the
    \* position of its handleClient goroutine ("scan", "put"), "done"
    conn,
    \* the lines a client has sent that handleClient has not read yet
    inbox,
    \* the client has closed its end of the connection
    peerClosed,
    \* the line scanner.Text() of handleClient holds
    hline,
    \* how many times each handleClient has called Put since the Stop of the
    \* TcpInput returned
    latePuts,
    \* number of lines and file chunks the environment has produced
    nInput

VARIABLES
    \* the bytes of the file at TailInput.path, and its modification time
    fileData,
    fileMod,
    \* TailInput.positions[path]
    positions,
    \* the content of the position file: the offset it records for the
    \* tracked path, or NoPosFile, MalformedPosFile, NullPosFile
    posFile,
    \* what the most recent read pass logged or did: "open", "seek", "read"
    \* or "write" for the error it logged, "saved" when it advanced the offset
    \* and wrote the position file, "same" when the offset did not move
    tailLog,
    \* FileObserver.running, FileObserver.wg
    obsRunning,
    obsWg,
    \* FileObserver.lastMod: the entry of each path, or NoEntry
    lastMod,
    \* the other file of the watched directory: Absent, StatFails when it is
    \* listed and os.Stat on it fails, or its modification time
    otherFile,
    \* the types of the events the scans have handed to the callback for the
    \* other file, in order
    otherEvents,
    \* the byte offsets at which the lines start that read passes have
    \* offered to the output queue, in the order they were offered
    offered,
    \* position of the poller goroutine FileObserver.Start spawned
    ppc

tvars == <<listener, conn, inbox, peerClosed, hline, latePuts>>
dvars == <<otherFile, otherEvents>>
avars == <<fileData, fileMod, positions, posFile, tailLog, obsRunning, obsWg, lastMod, ppc,
           dvars, offered>>
ivars == <<fheld, tvars, nInput, avars>>

qvars == <<ch, closed, mu, panicked, recvOnClosed, accepted, delivered>>
gvars == <<gpc, gcall, gret, gclosedAtCall, nOps>>
fvars == <<inputs, filters, outputs, queues, fcfg, frunning, fmu, cpc, cop, fidx,
           nCalls, startLog, stopLog>>
pvars == <<running, wg, wpc, stopReturned>>
ovars == <<buffer, batch, elapsed, tickReady, flushes, added, residual,
           flushesAtStop, flushErrs>>
vars == <<qvars, gvars, fvars, pvars, ovars, nEvents, ivars>>

\* the queue the SpecQueue goroutines share
TestQ == "inputQueue"

(***************************************************************************)
(* Queue (queue.go).                                                       *)
(***************************************************************************)
\* NewQueue: make(chan *Event, capacity), closed: false
NewQueue == [buf |-> <<>>, closed |-> FALSE]

\* Queue.Len: len(q.ch)
QLen(q) == Len(ch[q].buf)

\* `case q.ch <- event` is ready when the buffer has room
CanSendOffByOne(c) == Len(c.buf) <= Capacity
CanSend(c) == Len(c.buf) < Capacity

\* the channel after `q.ch <- event`
ChanSend(c, e) == [c EXCEPT !.buf = Append(@, e)]

\* `case event := <-q.ch` is ready when an event is buffered or ch is closed
CanRecv(c) == c.buf # <<>> \/ c.closed

\* the value `<-q.ch` yields: the oldest buffered event, nil on a drained closed channel
ChanRecvNewest(c) == IF c.buf # <<>> THEN c.buf[Len(c.buf)] ELSE Nil
ChanRecvValue(c) == IF c.buf # <<>> THEN Head(c.buf) ELSE Nil

\* a receive that leaves the event in the channel
ChanRecvPeeks(c) == c

\* the channel after `<-q.ch`
ChanRecvRest(c) == IF c.buf # <<>> THEN [c EXCEPT !.buf = Tail(@)] ELSE c

\* q.mu.Lock() proceeds only when nobody holds the mutex
NoMutex(q) == TRUE
MutexFree(q) == mu[q] = NoHolder

\* `if q.closed` in Put
PutSeesClosedNever(q) == FALSE
PutSeesClosed(q) == closed[q]

\* `if q.closed` in Get
GetSeesClosedNever(q) == FALSE
GetSeesClosed(q) == closed[q]

Ret(e, ok) == [event |-> e, ok |-> ok]

InitQueues ==
    /\ ch = [q \in QueueIds |-> NewQueue]
    /\ closed = [q \in QueueIds |-> FALSE]
    /\ mu = [q \in QueueIds |-> NoHolder]
    /\ panicked = FALSE
    /\ recvOnClosed = FALSE
    /\ accepted = [q \in QueueIds |-> <<>>]
    /\ delivered = [q \in QueueIds |-> <<>>]

InitCallers ==
    /\ gpc = [g \in Callers |-> "idle"]
    /\ gcall = [g \in Callers |-> [op |-> "none", event |-> Nil]]
    /\ gret = [g \in Callers |-> Ret(Nil, FALSE)]
    /\ gclosedAtCall = [g \in Callers |-> FALSE]
    /\ nOps = 0


(***************************************************************************)
(* The pipeline of cmd.run: the plugins that can be registered.            *)
(***************************************************************************)
\* plugin.NewTailInput / plugin.NewTcpInput
InputIds == {"tail", "tcp"}

\* plugin.NewGrepFilter / plugin.NewRecordTransformerFilter
FilterIds == {"grep", "transform"}

\* plugin.NewStdoutOutput / plugin.NewFileOutput
OutputIds == {"stdout", "file"}

PluginIds == InputIds \cup FilterIds \cup OutputIds

\* the goroutines that call Fluentd.Start / Fluentd.Stop
OrchCallers == {1, 2}

\* the goroutine of cmd.run, which calls fluent.Start() and fluent.Stop()
MainCaller == 1

\* the set of elements of a sequence
Range(s) == {s[i] : i \in 1..Len(s)}

\* NewFluentd, then AddInput / AddFilter / AddOutput for the given plugins
InitFluentd(ins, fils, outs) ==
    /\ inputs = ins
    /\ filters = fils
    /\ outputs = outs
    /\ queues = <<>>
    /\ frunning = FALSE
    /\ fmu = NoHolder
    /\ cpc = [c \in OrchCallers |-> "idle"]
    /\ cop = [c \in OrchCallers |-> "none"]
    /\ fidx = 0
    /\ nCalls = 0
    /\ startLog = <<>>
    /\ stopLog = <<>>

\* NewBaseInput / NewBaseFilter / NewBaseOutput: running: false
InitPlugins ==
    /\ running = [p \in PluginIds |-> FALSE]
    /\ wg = [p \in PluginIds |-> 0]
    /\ wpc = [p \in PluginIds |-> "none"]
    /\ stopReturned = [p \in PluginIds |-> FALSE]

\* NewBaseOutput: an empty buffer, lastFlush: time.Now()
InitOutputs ==
    /\ buffer = [o \in OutputIds |-> <<>>]
    /\ batch = [o \in OutputIds |-> <<>>]
    /\ elapsed = [o \in OutputIds |-> FALSE]
    /\ tickReady = [o \in OutputIds |-> FALSE]
    /\ flushes = [o \in OutputIds |-> <<>>]
    /\ added = [o \in OutputIds |-> <<>>]
    /\ residual = [o \in OutputIds |-> <<>>]
    /\ flushesAtStop = [o \in OutputIds |-> 0]
    /\ flushErrs = [o \in OutputIds |-> <<>>]
    /\ nEvents = 0

\* no position file exists; the modification table has no entry for the path
NoPosFile == -1
NoEntry == -1

\* TailInput.path and the other file of filepath.Dir(path)
TrackedPath == "tracked"
OtherPath == "other"
Paths == {TrackedPath, OtherPath}

\* the other file is not in the directory; os.Stat on it fails
Absent == -1
StatFails == -2

\* a position file whose content json.Unmarshal rejects, and one holding the
\* JSON value null
MalformedPosFile == -2
NullPosFile == -3

\* loadPositions: the entry of the tracked path after json.Unmarshal and
\* `if !exists { t.positions[t.path] = 0 }`
LoadPositions(content) == IF content >= 0 THEN content ELSE 0

\* loadPositions: json.Unmarshal of null sets t.positions to the nil map, and
\* the assignment of the default entry to a nil map panics
LoadPanics(content) == content = NullPosFile

\* NewTailInput with loadPositions and NewFileObserver, for a tracked file
\* holding `data` and a position file holding `content`
InitTailAt(data, content) ==
    /\ fileData = data
    /\ fileMod = 0
    /\ posFile = content
    /\ positions = LoadPositions(content)
    /\ tailLog = "none"
    /\ obsRunning = FALSE
    /\ obsWg = 0
    /\ lastMod = [p \in Paths |-> NoEntry]
    /\ ppc = "none"
    /\ otherFile = Absent
    /\ otherEvents = <<>>
    /\ offered = <<>>

\* NewTailInput with no position file: offset 0
InitTail(data) == InitTailAt(data, NoPosFile)

\* the arguments cmd.run passes to NewGrepFilter: the rule's tag, the key
\* "message", the rule's pattern, exclude false
CmdConfig ==
    [f \in FilterIds |->
        [matchTags |-> <<TagApp>>, key |-> "message", pattern |-> <<"a">>,
         exclude |-> FALSE, addFields |-> EmptyRecord, removeFields |-> <<>>]]

\* NewGrepFilter / NewRecordTransformerFilter with the given arguments
InitFilters(cfg) == fcfg = cfg

\* the client connections the environment can open to the TcpInput
ConnIds == {"client"}

\* NewBaseFilter; NewTcpInput: no listener yet
InitInputs ==
    /\ fheld = [f \in FilterIds |-> Nil]
    /\ listener = "none"
    /\ conn = [k \in ConnIds |-> "none"]
    /\ inbox = [k \in ConnIds |-> <<>>]
    /\ peerClosed = [k \in ConnIds |-> FALSE]
    /\ hline = [k \in ConnIds |-> <<>>]
    /\ latePuts = [k \in ConnIds |-> 0]
    /\ nInput = 0
    /\ InitTail(<<>>)

\* one Queue and the goroutines that call it; no plugin is registered
InitQueue ==
    /\ InitQueues
    /\ InitCallers
    /\ InitFluentd(<<>>, <<>>, <<>>)
    /\ InitPlugins
    /\ InitOutputs
    /\ InitInputs
    /\ InitFilters(CmdConfig)

(***************************************************************************)
(* SpecQueue: each statement of Put / Get / Close is one step of the       *)
(* calling goroutine.  A panic ends the program.                           *)
(***************************************************************************)
\* a goroutine calls q.Put(event), q.Get() or q.Close()
Call(g) ==
    /\ ~panicked
    /\ gpc[g] = "idle"
    /\ nOps < MaxOps
    /\ \E op \in {"Put", "Get", "Close"} :
         gcall' = [gcall EXCEPT ![g] =
                     [op |-> op,
                      event |-> IF op = "Put"
                                THEN NewEvent(nOps + 1, TagApp, EmptyRecord)
                                ELSE Nil]]
    /\ gclosedAtCall' = [gclosedAtCall EXCEPT ![g] = closed[TestQ]]
    /\ gpc' = [gpc EXCEPT ![g] = "lock"]
    /\ nOps' = nOps + 1
    /\ UNCHANGED <<qvars, gret>>

\* q.mu.Lock()
Lock(g) ==
    /\ ~panicked
    /\ gpc[g] = "lock"
    /\ MutexFree(TestQ)
    /\ mu' = [mu EXCEPT ![TestQ] = g]
    /\ gpc' = [gpc EXCEPT ![g] =
                 CASE gcall[g].op = "Put" -> "put_check"
                   [] gcall[g].op = "Get" -> "get_check"
                   [] OTHER -> "close_check"]
    /\ UNCHANGED <<ch, closed, panicked, recvOnClosed, accepted, delivered,
                   gcall, gret, gclosedAtCall, nOps>>

\* Put: if q.closed { return false }
PutCheck(g) ==
    /\ ~panicked
    /\ gpc[g] = "put_check"
    /\ IF PutSeesClosed(TestQ)
       THEN /\ gret' = [gret EXCEPT ![g] = Ret(Nil, FALSE)]
            /\ gpc' = [gpc EXCEPT ![g] = "unlock"]
       ELSE /\ gpc' = [gpc EXCEPT ![g] = "put_select"]
            /\ UNCHANGED gret
    /\ UNCHANGED <<qvars, gcall, gclosedAtCall, nOps>>

\* Put: select { case q.ch <- event: return true; default: return false }
PutSelect(g) ==
    /\ ~panicked
    /\ gpc[g] = "put_select"
    /\ IF ch[TestQ].closed
       THEN \* send on closed channel
            /\ panicked' = TRUE
            /\ UNCHANGED <<ch, accepted, gret, gpc>>
       ELSE IF CanSend(ch[TestQ])
            THEN /\ ch' = [ch EXCEPT ![TestQ] = ChanSend(@, gcall[g].event)]
                 /\ accepted' = [accepted EXCEPT ![TestQ] = Append(@, gcall[g].event)]
                 /\ gret' = [gret EXCEPT ![g] = Ret(Nil, TRUE)]
                 /\ gpc' = [gpc EXCEPT ![g] = "unlock"]
                 /\ UNCHANGED panicked
            ELSE /\ gret' = [gret EXCEPT ![g] = Ret(Nil, FALSE)]
                 /\ gpc' = [gpc EXCEPT ![g] = "unlock"]
                 /\ UNCHANGED <<ch, accepted, panicked>>
    /\ UNCHANGED <<closed, mu, recvOnClosed, delivered, gcall, gclosedAtCall, nOps>>

\* Get: if q.closed { return nil, false }
GetCheck(g) ==
    /\ ~panicked
    /\ gpc[g] = "get_check"
    /\ IF GetSeesClosed(TestQ)
       THEN /\ gret' = [gret EXCEPT ![g] = Ret(Nil, FALSE)]
            /\ gpc' = [gpc EXCEPT ![g] = "unlock"]
       ELSE /\ gpc' = [gpc EXCEPT ![g] = "get_select"]
            /\ UNCHANGED gret
    /\ UNCHANGED <<qvars, gcall, gclosedAtCall, nOps>>

\* Get: select { case event := <-q.ch: return event, true; default: return nil, false }
GetSelect(g) ==
    /\ ~panicked
    /\ gpc[g] = "get_select"
    /\ IF CanRecv(ch[TestQ])
       THEN /\ gret' = [gret EXCEPT ![g] = Ret(ChanRecvValue(ch[TestQ]), TRUE)]
            /\ ch' = [ch EXCEPT ![TestQ] = ChanRecvRest(@)]
            /\ delivered' = [delivered EXCEPT ![TestQ] =
                               Append(@, ChanRecvValue(ch[TestQ]))]
            /\ recvOnClosed' = (recvOnClosed \/ ch[TestQ].closed)
       ELSE /\ gret' = [gret EXCEPT ![g] = Ret(Nil, FALSE)]
            /\ UNCHANGED <<ch, delivered, recvOnClosed>>
    /\ gpc' = [gpc EXCEPT ![g] = "unlock"]
    /\ UNCHANGED <<closed, mu, panicked, accepted, gcall, gclosedAtCall, nOps>>

\* Close: if !q.closed {
CloseCheck(g) ==
    /\ ~panicked
    /\ gpc[g] = "close_check"
    /\ gpc' = [gpc EXCEPT ![g] = IF closed[TestQ] THEN "unlock" ELSE "close_ch"]
    /\ gret' = [gret EXCEPT ![g] = Ret(Nil, FALSE)]
    /\ UNCHANGED <<qvars, gcall, gclosedAtCall, nOps>>

\* Close: close(q.ch)
CloseChan(g) ==
    /\ ~panicked
    /\ gpc[g] = "close_ch"
    /\ IF ch[TestQ].closed
       THEN \* close of closed channel
            /\ panicked' = TRUE
            /\ UNCHANGED <<ch, gpc>>
       ELSE /\ ch' = [ch EXCEPT ![TestQ].closed = TRUE]
            /\ gpc' = [gpc EXCEPT ![g] = "close_flag"]
            /\ UNCHANGED panicked
    /\ UNCHANGED <<closed, mu, recvOnClosed, accepted, delivered,
                   gcall, gret, gclosedAtCall, nOps>>

\* Close: q.closed = true }
CloseFlag(g) ==
    /\ ~panicked
    /\ gpc[g] = "close_flag"
    /\ closed' = [closed EXCEPT ![TestQ] = TRUE]
    /\ gpc' = [gpc EXCEPT ![g] = "unlock"]
    /\ UNCHANGED <<ch, mu, panicked, recvOnClosed, accepted, delivered,
                   gcall, gret, gclosedAtCall, nOps>>

\* defer q.mu.Unlock(), and the call returns gret[g]
Unlock(g) ==
    /\ ~panicked
    /\ gpc[g] = "unlock"
    /\ mu' = [mu EXCEPT ![TestQ] = NoHolder]
    /\ gpc' = [gpc EXCEPT ![g] = "idle"]
    /\ UNCHANGED <<ch, closed, panicked, recvOnClosed, accepted, delivered,
                   gcall, gret, gclosedAtCall, nOps>>

NextQueue ==
    /\ UNCHANGED <<fvars, pvars, ovars, nEvents, ivars>>
    /\ \E g \in Callers :
        \/ Call(g)
        \/ Lock(g)
        \/ PutCheck(g)
        \/ PutSelect(g)
        \/ GetCheck(g)
        \/ GetSelect(g)
        \/ CloseCheck(g)
        \/ CloseChan(g)
        \/ CloseFlag(g)
        \/ Unlock(g)

SpecQueue == InitQueue /\ [][NextQueue]_vars

(***************************************************************************)
(* Claims about the Queue, checked under SpecQueue.                        *)
(***************************************************************************)
\* the step in which the Put call of g decides its result
PutDecides(g) == gpc[g] \in {"put_check", "put_select"} /\ gpc'[g] = "unlock"

\* the step in which the Get call of g decides its result
GetDecides(g) == gpc[g] \in {"get_check", "get_select"} /\ gpc'[g] = "unlock"

\* C1: the queue never holds more than Capacity events; a Put returns true
\* exactly when, at the step that decides it, the queue is not closed and
\* holds fewer than Capacity events, and then the buffer grows by exactly that
\* event; a Put that returns false leaves the buffer unchanged.
C1_PutBounded ==
    /\ [](\A q \in QueueIds : QLen(q) <= Capacity)
    /\ [][\A g \in Callers : PutDecides(g) =>
            /\ gret'[g].ok <=> (~closed[TestQ] /\ QLen(TestQ) < Capacity)
            /\ gret'[g].ok => ch'[TestQ].buf = Append(ch[TestQ].buf, gcall[g].event)
            /\ ~gret'[g].ok => ch' = ch]_vars

\* C1 witness: a Put on an open, full queue has returned false
C1_Witness ==
    \E g \in Callers :
        /\ gpc[g] = "unlock" /\ gcall[g].op = "Put" /\ ~gret[g].ok
        /\ ~closed[TestQ] /\ QLen(TestQ) = Capacity

\* C2: once Close has set the closed flag it stays set and the buffer is
\* frozen; every Put and Get called after that returns (nil,)false even with
\* events still buffered; a Close called after that changes nothing of the
\* queue but the mutex, and nothing panics.
C2_CloseTerminal ==
    /\ [](~panicked)
    /\ [](\A g \in Callers :
            (gpc[g] = "unlock" /\ gclosedAtCall[g] /\ gcall[g].op \in {"Put", "Get"})
                => gret[g] = Ret(Nil, FALSE))
    /\ [][closed[TestQ] => (closed'[TestQ] /\ ch' = ch)]_vars
    /\ [][\A g \in Callers :
            (gcall'[g].op = "Close" /\ gclosedAtCall'[g] /\ gpc'[g] # gpc[g])
                => UNCHANGED <<ch, closed, panicked, recvOnClosed, accepted, delivered>>]_vars

\* C2 witness: a Get called after Close, with an event still buffered, has
\* returned (nil, false), and another goroutine is inside a second Close
C2_Witness ==
    \E g, h \in Callers :
        /\ gpc[g] = "unlock" /\ gcall[g].op = "Get" /\ gclosedAtCall[g]
        /\ gret[g] = Ret(Nil, FALSE)
        /\ ch[TestQ].buf # <<>>
        /\ gpc[h] = "lock" /\ gcall[h].op = "Close" /\ gclosedAtCall[h]

\* C3: the closed-flag check and the channel operation of a call are atomic:
\* at most one goroutine is between Lock and Unlock, no Put reaches its send
\* and no Get its receive on a channel that close(ch) has closed, and no send
\* or close on a closed channel (a panic) ever happens.
C3_AtomicCheckAndSend ==
    /\ ~panicked
    /\ ~recvOnClosed
    /\ \A g \in Callers : gpc[g] \in {"put_select", "get_select"} => ~ch[TestQ].closed
    /\ \A g, h \in Callers :
         (gpc[g] \notin {"idle", "lock"} /\ gpc[h] \notin {"idle", "lock"}) => g = h

\* C3 witness: a Put waits for the mutex while a Close has closed the channel
\* and not yet set the closed flag
C3_Witness ==
    \E g, h \in Callers :
        /\ gpc[g] = "lock" /\ gcall[g].op = "Put" /\ ~gclosedAtCall[g]
        /\ gpc[h] = "close_flag"

\* C4: events leave in the order their Puts succeeded; a Get on an open,
\* non-empty queue returns ok=true with the oldest accepted event not yet
\* returned and removes it; on an empty or closed queue it returns
\* (nil,false) and leaves the queue unchanged; inside Get a step is always
\* possible (it never waits for data).
C4_GetFifoNonBlocking ==
    /\ [](delivered[TestQ] \o ch[TestQ].buf = accepted[TestQ])
    /\ [](\A g \in Callers :
            /\ gpc[g] = "get_check" => ENABLED GetCheck(g)
            /\ gpc[g] = "get_select" => ENABLED GetSelect(g))
    /\ [][\A g \in Callers : GetDecides(g) =>
            IF ~closed[TestQ] /\ ch[TestQ].buf # <<>>
            THEN /\ gret'[g] = Ret(accepted[TestQ][Len(delivered[TestQ]) + 1], TRUE)
                 /\ ch'[TestQ].buf = Tail(ch[TestQ].buf)
            ELSE /\ gret'[g] = Ret(Nil, FALSE)
                 /\ ch' = ch]_vars

\* C4 witness: a Get has returned an event while a younger one stays buffered
C4_Witness ==
    \E g \in Callers :
        /\ gpc[g] = "unlock" /\ gcall[g].op = "Get" /\ gret[g].ok
        /\ ch[TestQ].buf # <<>>
        /\ gret[g].event.id < Head(ch[TestQ].buf).id

(***************************************************************************)
(* Put and Get as the plugins see them: the mutex makes each call one      *)
(* step (C3).                                                              *)
(***************************************************************************)
\* the result of q.Put(event)
PutOk(q) == ~PutSeesClosed(q) /\ CanSend(ch[q])

\* q.Put(event)
QueuePut(q, e) ==
    /\ ch' = IF PutOk(q) THEN [ch EXCEPT ![q] = ChanSend(@, e)] ELSE ch
    /\ accepted' = IF PutOk(q) THEN [accepted EXCEPT ![q] = Append(@, e)] ELSE accepted
    /\ UNCHANGED <<closed, mu, panicked, recvOnClosed, delivered>>

\* the ok result of q.Get()
GetOk(q) == ~GetSeesClosed(q) /\ CanRecv(ch[q])

\* the event q.Get() returns
GetEvent(q) == IF GetOk(q) THEN ChanRecvValue(ch[q]) ELSE Nil

\* q.Get()
QueueGet(q) ==
    /\ ch' = IF GetOk(q) THEN [ch EXCEPT ![q] = ChanRecvRest(@)] ELSE ch
    /\ delivered' = IF GetOk(q) THEN [delivered EXCEPT ![q] = Append(@, GetEvent(q))]
                    ELSE delivered
    /\ UNCHANGED <<closed, mu, panicked, recvOnClosed, accepted>>

(***************************************************************************)
(* Output plugins (output.go): StdoutOutput and FileOutput share the code  *)
(* of Start and Stop.                                                      *)
(***************************************************************************)
\* the inputQueue argument of NewStdoutOutput / NewFileOutput in cmd.run
OutputQueue(o) == "outputQueue"

\* the matchTags argument of NewStdoutOutput / NewFileOutput
OutputTag(o) == TagApp

\* BaseOutput.Matches: the pattern loop is commented out
OutputMatches(o, tag) == TRUE

\* BaseOutput.ShouldFlush
ShouldFlushTimeOnly(o) == elapsed[o]
ShouldFlushSizeOnly(o) == Len(buffer[o]) >= BufferSize
ShouldFlush(o) == Len(buffer[o]) >= BufferSize \/ elapsed[o]

\* BaseOutput.GetBuffer: what it leaves in o.buffer
BufferKept(o) == buffer[o]
BufferAfterGet(o) == <<>>

\* BaseOutput.GetBuffer
GetBuffer(o) ==
    /\ batch' = [batch EXCEPT ![o] = buffer[o]]
    /\ buffer' = [buffer EXCEPT ![o] = BufferAfterGet(o)]
    /\ elapsed' = [elapsed EXCEPT ![o] = FALSE]

\* the errors FileOutput.Flush can return: os.MkdirAll fails, os.OpenFile
\* fails; NoError when it reaches closeFunc()
NoError == "nil"
FlushErrors == {"mkdir", "open"}

\* a Flush whose caller appends the batch to o.buffer again when Flush
\* returns an error
FlushReturnsRequeues(o, errs) ==
    /\ flushes' = IF Len(batch[o]) > 0
                  THEN [flushes EXCEPT ![o] = Append(@, batch[o])]
                  ELSE flushes
    /\ \E err \in errs :
         IF Len(batch[o]) > 0 /\ err # NoError
         THEN /\ flushErrs' = [flushErrs EXCEPT ![o] = Append(@, batch[o])]
              /\ buffer' = [buffer EXCEPT ![o] = batch[o] \o @]
         ELSE UNCHANGED <<flushErrs, buffer>>
    /\ batch' = [batch EXCEPT ![o] = <<>>]

\* if len(buffer) > 0 { Flush(buffer) }, Flush returning one of `errs`; the
\* caller drops what Flush returns, and the local `buffer` goes out of scope
FlushReturns(o, errs) ==
    /\ flushes' = IF Len(batch[o]) > 0
                  THEN [flushes EXCEPT ![o] = Append(@, batch[o])]
                  ELSE flushes
    /\ \E err \in errs :
         flushErrs' = IF Len(batch[o]) > 0 /\ err # NoError
                      THEN [flushErrs EXCEPT ![o] = Append(@, batch[o])]
                      ELSE flushErrs
    /\ batch' = [batch EXCEPT ![o] = <<>>]
    /\ UNCHANGED buffer

\* if len(buffer) > 0 { Flush(buffer) } on a file system where the directory
\* can be created and the file opened
FlushBatch(o) == FlushReturns(o, {NoError})

\* if len(buffer) > 0 { Flush(buffer) } on a file system where os.MkdirAll or
\* os.OpenFile may fail
FlushBatchMayFail(o) == FlushReturns(o, {NoError} \cup FlushErrors)

\* StdoutOutput.Start / FileOutput.Start, up to `go func()`
OutputStart(o) ==
    IF running[o]
    THEN UNCHANGED <<pvars, tickReady>>
    ELSE /\ running' = [running EXCEPT ![o] = TRUE]
         /\ wg' = [wg EXCEPT ![o] = @ + 1]
         /\ wpc' = [wpc EXCEPT ![o] = "run"]
         /\ stopReturned' = [stopReturned EXCEPT ![o] = FALSE]
         /\ tickReady' = [tickReady EXCEPT ![o] = FALSE]

\* for o.IsRunning() {
OutLoop(o) ==
    /\ wpc[o] = "run"
    /\ wpc' = [wpc EXCEPT ![o] = IF running[o] THEN "select" ELSE "final"]
    /\ UNCHANGED <<qvars, gvars, fvars, running, wg, stopReturned, ovars, nEvents, ivars>>

\* case <-ticker.C: if ShouldFlush() { buffer := GetBuffer()
OutTick(o) ==
    /\ wpc[o] = "select"
    /\ tickReady[o]
    /\ tickReady' = [tickReady EXCEPT ![o] = FALSE]
    /\ IF ShouldFlush(o)
       THEN /\ GetBuffer(o)
            /\ wpc' = [wpc EXCEPT ![o] = "tick_flush"]
       ELSE /\ wpc' = [wpc EXCEPT ![o] = "run"]
            /\ UNCHANGED <<buffer, batch, elapsed>>
    /\ UNCHANGED <<qvars, gvars, fvars, running, wg, stopReturned, flushes, added,
                   residual, flushesAtStop, flushErrs, nEvents, ivars>>

\* default: event, ok := inputQueue.Get(); if !ok { Sleep; continue }
\*          if Matches(event.Tag) { AddToBuffer(event)
OutGet(o) ==
    /\ wpc[o] = "select"
    /\ ~tickReady[o]
    /\ QueueGet(OutputQueue(o))
    /\ IF GetOk(OutputQueue(o)) /\ OutputMatches(o, GetEvent(OutputQueue(o)).tag)
       THEN /\ buffer' = [buffer EXCEPT ![o] = Append(@, GetEvent(OutputQueue(o)))]
            /\ added' = [added EXCEPT ![o] = Append(@, GetEvent(OutputQueue(o)))]
            /\ wpc' = [wpc EXCEPT ![o] = "added"]
       ELSE /\ wpc' = [wpc EXCEPT ![o] = "run"]
            /\ UNCHANGED <<buffer, added>>
    /\ UNCHANGED <<gvars, fvars, running, wg, stopReturned, batch, elapsed, tickReady,
                   flushes, residual, flushesAtStop, flushErrs, nEvents, ivars>>

\* if ShouldFlush() { buffer := GetBuffer()
OutAdded(o) ==
    /\ wpc[o] = "added"
    /\ IF ShouldFlush(o)
       THEN /\ GetBuffer(o)
            /\ wpc' = [wpc EXCEPT ![o] = "add_flush"]
       ELSE /\ wpc' = [wpc EXCEPT ![o] = "run"]
            /\ UNCHANGED <<buffer, batch, elapsed>>
    /\ UNCHANGED <<qvars, gvars, fvars, running, wg, stopReturned, tickReady, flushes,
                   added, residual, flushesAtStop, flushErrs, nEvents, ivars>>

\* if len(buffer) > 0 { Flush(buffer) } } (both branches of the select)
OutFlushDoes(o, flush) ==
    /\ wpc[o] \in {"tick_flush", "add_flush"}
    /\ flush
    /\ wpc' = [wpc EXCEPT ![o] = "run"]
    /\ UNCHANGED <<qvars, gvars, fvars, running, wg, stopReturned, elapsed,
                   tickReady, added, residual, flushesAtStop, nEvents, ivars>>

OutFlush(o) == OutFlushDoes(o, FlushBatch(o))
OutFlushMayFail(o) == OutFlushDoes(o, FlushBatchMayFail(o))

\* after the loop: buffer := GetBuffer()
OutFinal(o) ==
    /\ wpc[o] = "final"
    /\ GetBuffer(o)
    /\ wpc' = [wpc EXCEPT ![o] = "final_flush"]
    /\ UNCHANGED <<qvars, gvars, fvars, running, wg, stopReturned, tickReady, flushes,
                   added, residual, flushesAtStop, flushErrs, nEvents, ivars>>

\* if len(buffer) > 0 { Flush(buffer) }; deferred: ticker.Stop(), wg.Done()
OutExitDoes(o, flush) ==
    /\ wpc[o] = "final_flush"
    /\ flush
    /\ wg' = [wg EXCEPT ![o] = @ - 1]
    /\ wpc' = [wpc EXCEPT ![o] = "exited"]
    /\ UNCHANGED <<qvars, gvars, fvars, running, stopReturned, elapsed,
                   tickReady, added, residual, flushesAtStop, nEvents, ivars>>

OutExit(o) == OutExitDoes(o, FlushBatch(o))
OutExitMayFail(o) == OutExitDoes(o, FlushBatchMayFail(o))

\* the ticker of the output goroutine fires (time.NewTicker(1 * time.Second))
Tick(o) ==
    /\ wpc[o] \notin {"none", "exited"}
    /\ ~tickReady[o]
    /\ tickReady' = [tickReady EXCEPT ![o] = TRUE]
    /\ UNCHANGED <<qvars, gvars, fvars, pvars, buffer, batch, elapsed, flushes, added,
                   residual, flushesAtStop, flushErrs, nEvents, ivars>>

\* flushInterval has passed since o.lastFlush
TimePasses(o) ==
    /\ ~elapsed[o]
    /\ elapsed' = [elapsed EXCEPT ![o] = TRUE]
    /\ UNCHANGED <<qvars, gvars, fvars, pvars, buffer, batch, tickReady, flushes, added,
                   residual, flushesAtStop, flushErrs, nEvents, ivars>>


(***************************************************************************)
(* Filter plugins (filter.go).                                             *)
(***************************************************************************)
\* the inputQueue / outputQueue arguments of NewGrepFilter in cmd.run
FilterInputQueue(f) == "inputQueue"
FilterOutputQueue(f) == "outputQueue"

\* BaseFilter.matchTags; GrepFilter.key, .pattern, .exclude;
\* RecordTransformerFilter.addFields, .removeFields
FilterTags(f) == fcfg[f].matchTags
GrepKey(f) == fcfg[f].key
GrepPattern(f) == fcfg[f].pattern
GrepExclude(f) == fcfg[f].exclude
AddFields(f) == fcfg[f].addFields
RemoveFields(f) == fcfg[f].removeFields

\* BaseFilter.Matches for one pattern; pattern[len(pattern)-1] of an empty
\* pattern is an index out of range
MatchesOne(pattern, tag) ==
    IF pattern = <<"*">> THEN "true"
    ELSE IF pattern = <<>> THEN "panic"
    ELSE IF /\ pattern[Len(pattern)] = "*"
            /\ Len(tag) >= Len(pattern) - 1
            /\ SubSeq(tag, 1, Len(pattern) - 1) = SubSeq(pattern, 1, Len(pattern) - 1)
         THEN "true"
    ELSE IF tag = pattern THEN "true"
    ELSE "false"

\* BaseFilter.Matches: "true", "false", or "panic"
RECURSIVE FilterMatches(_, _)
FilterMatches(patterns, tag) ==
    IF patterns = <<>> THEN "false"
    ELSE IF MatchesOne(Head(patterns), tag) = "false"
         THEN FilterMatches(Tail(patterns), tag)
         ELSE MatchesOne(Head(patterns), tag)

\* regexp.MatchString for a pattern of literal characters: the pattern
\* occurs somewhere in the value
MatchString(pattern, value) ==
    \E i \in 0..(Len(value) - Len(pattern)) :
        SubSeq(value, i + 1, i + Len(pattern)) = pattern

\* GrepFilter.Filter without the exclude flag: kept exactly when the field
\* is a string the pattern matches
GrepKeepsMatchOnly(f, e) ==
    /\ GrepKey(f) \in DOMAIN e.record
    /\ e.record[GrepKey(f)].str
    /\ MatchString(GrepPattern(f), e.record[GrepKey(f)].text)

\* GrepFilter.Filter: the event is kept (returned) or dropped (nil)
GrepKeeps(f, e) ==
    IF GrepKey(f) \notin DOMAIN e.record \/ ~e.record[GrepKey(f)].str
    THEN GrepExclude(f)
    ELSE LET match == MatchString(GrepPattern(f), e.record[GrepKey(f)].text) IN
         (match /\ ~GrepExclude(f)) \/ (~match /\ GrepExclude(f))

\* GrepFilter.Filter: the event, or nil
GrepFilterResult(f, e) == IF GrepKeeps(f, e) THEN e ELSE Nil

\* `for key, value := range r.addFields { event.Record[key] = value }`
SetFields(rec, add) ==
    [k \in DOMAIN rec \cup DOMAIN add |-> IF k \in DOMAIN add THEN add[k] ELSE rec[k]]

\* `for _, key := range r.removeFields { delete(event.Record, key) }`
RECURSIVE DeleteKeys(_, _)
DeleteKeys(rec, keys) ==
    IF keys = <<>> THEN rec
    ELSE DeleteKeys([k \in DOMAIN rec \ {Head(keys)} |-> rec[k]], Tail(keys))

\* the record RecordTransformerFilter.Filter leaves in the event
TransformRecordRemoveFirst(f, rec) ==
    SetFields(DeleteKeys(rec, RemoveFields(f)), AddFields(f))
TransformRecord(f, rec) ==
    DeleteKeys(SetFields(rec, AddFields(f)), RemoveFields(f))

\* a Filter that returns nil for every event
TransformResultNil(f, e) == Nil

\* RecordTransformerFilter.Filter
TransformResult(f, e) == [e EXCEPT !.record = TransformRecord(f, e.record)]

\* the Filter method of the filter
FilterResult(f, e) ==
    IF f = "transform" THEN TransformResult(f, e) ELSE GrepFilterResult(f, e)

\* the else branch of the loop body: outputQueue.Put(event)
UnmatchedDropped(f, e) == Nil
Unmatched(f, e) == e

\* the event the loop body passes to outputQueue.Put, or nil when it makes
\* no Put
Forwarded(f, e) ==
    IF FilterMatches(FilterTags(f), e.tag) = "true"
    THEN FilterResult(f, e)
    ELSE Unmatched(f, e)

\* GrepFilter.Start, up to `go func()`
FilterStart(f) ==
    IF running[f]
    THEN UNCHANGED pvars
    ELSE /\ running' = [running EXCEPT ![f] = TRUE]
         /\ wg' = [wg EXCEPT ![f] = @ + 1]
         /\ wpc' = [wpc EXCEPT ![f] = "run"]
         /\ stopReturned' = [stopReturned EXCEPT ![f] = FALSE]

\* for g.IsRunning() { ... }; deferred: wg.Done()
FilLoop(f) ==
    /\ ~panicked
    /\ wpc[f] = "run"
    /\ IF running[f]
       THEN /\ wpc' = [wpc EXCEPT ![f] = "get"]
            /\ UNCHANGED wg
       ELSE /\ wpc' = [wpc EXCEPT ![f] = "exited"]
            /\ wg' = [wg EXCEPT ![f] = @ - 1]
    /\ UNCHANGED <<qvars, gvars, fvars, running, stopReturned, ovars, nEvents, ivars>>

\* event, ok := g.inputQueue.Get(); if !ok { Sleep; continue }
FilGet(f) ==
    /\ ~panicked
    /\ wpc[f] = "get"
    /\ QueueGet(FilterInputQueue(f))
    /\ fheld' = [fheld EXCEPT ![f] = GetEvent(FilterInputQueue(f))]
    /\ wpc' = [wpc EXCEPT ![f] = IF GetOk(FilterInputQueue(f)) THEN "fwd" ELSE "run"]
    /\ UNCHANGED <<gvars, fvars, running, wg, stopReturned, ovars, nEvents, tvars, nInput, avars>>

\* if g.Matches(event.Tag) { if Filter(event) != nil { outputQueue.Put } }
\* else { outputQueue.Put(event) }; the loop body of GrepFilter.Start and of
\* RecordTransformerFilter.Start.  An index out of range in Matches panics.
FilForward(f) ==
    /\ ~panicked
    /\ wpc[f] = "fwd"
    /\ IF FilterMatches(FilterTags(f), fheld[f].tag) = "panic"
       THEN /\ panicked' = TRUE
            /\ wpc' = [wpc EXCEPT ![f] = "panicked"]
            /\ UNCHANGED <<ch, closed, mu, recvOnClosed, accepted, delivered, fheld>>
       ELSE /\ IF Forwarded(f, fheld[f]) = Nil
               THEN UNCHANGED qvars
               ELSE QueuePut(FilterOutputQueue(f), Forwarded(f, fheld[f]))
            /\ fheld' = [fheld EXCEPT ![f] = Nil]
            /\ wpc' = [wpc EXCEPT ![f] = "run"]
    /\ UNCHANGED <<gvars, fvars, running, wg, stopReturned, ovars, nEvents, tvars, nInput, avars>>

(***************************************************************************)
(* TcpInput (input.go).                                                    *)
(***************************************************************************)
\* the tag and outputQueue arguments of NewTcpInput / NewTailInput in cmd.run
InputTag(i) == IF i = "tcp" THEN TagNet ELSE TagApp
InputQueue(i) == "inputQueue"

\* the lines a client can send
TcpLines == {<<"a">>, <<>>}

\* a Start that sets the running flag and spawns the accept loop although
\* net.Listen failed
TcpStartIgnoresError(bound) ==
    IF running["tcp"]
    THEN UNCHANGED <<pvars, listener, latePuts>>
    ELSE /\ listener' = IF bound THEN "open" ELSE "none"
         /\ latePuts' = [k \in ConnIds |-> 0]
         /\ running' = [running EXCEPT !["tcp"] = TRUE]
         /\ wg' = [wg EXCEPT !["tcp"] = @ + 1]
         /\ wpc' = [wpc EXCEPT !["tcp"] = "run"]
         /\ stopReturned' = [stopReturned EXCEPT !["tcp"] = FALSE]

\* TcpInput.Start, up to `go func()`; net.Listen succeeds (bound) or fails
TcpStart(bound) ==
    IF running["tcp"]
    THEN UNCHANGED <<pvars, listener, latePuts>>
    ELSE IF ~bound
         THEN /\ listener' = "none"
              /\ UNCHANGED <<pvars, latePuts>>
         ELSE /\ listener' = "open"
              /\ latePuts' = [k \in ConnIds |-> 0]
              /\ running' = [running EXCEPT !["tcp"] = TRUE]
              /\ wg' = [wg EXCEPT !["tcp"] = @ + 1]
              /\ wpc' = [wpc EXCEPT !["tcp"] = "run"]
              /\ stopReturned' = [stopReturned EXCEPT !["tcp"] = FALSE]

\* for t.IsRunning() { ... }; deferred: wg.Done()
TcpLoop ==
    /\ wpc["tcp"] = "run"
    /\ IF running["tcp"]
       THEN /\ wpc' = [wpc EXCEPT !["tcp"] = "accept"]
            /\ UNCHANGED wg
       ELSE /\ wpc' = [wpc EXCEPT !["tcp"] = "exited"]
            /\ wg' = [wg EXCEPT !["tcp"] = @ - 1]
    /\ UNCHANGED <<qvars, gvars, fvars, running, stopReturned, ovars, nEvents, ivars>>

\* conn, err := t.listener.Accept() returns a connection: go t.handleClient(conn)
TcpAccept(k) ==
    /\ wpc["tcp"] = "accept"
    /\ listener = "open"
    /\ conn[k] = "pending"
    /\ conn' = [conn EXCEPT ![k] = "scan"]
    /\ wpc' = [wpc EXCEPT !["tcp"] = "run"]
    /\ UNCHANGED <<qvars, gvars, fvars, running, wg, stopReturned, ovars, nEvents,
                   fheld, listener, inbox, peerClosed, hline, latePuts, nInput, avars>>

\* Accept fails on the closed listener: if !t.IsRunning() { break }; continue
TcpAcceptError ==
    /\ wpc["tcp"] = "accept"
    /\ listener = "closed"
    /\ IF running["tcp"]
       THEN /\ wpc' = [wpc EXCEPT !["tcp"] = "run"]
            /\ UNCHANGED wg
       ELSE /\ wpc' = [wpc EXCEPT !["tcp"] = "exited"]
            /\ wg' = [wg EXCEPT !["tcp"] = @ - 1]
    /\ UNCHANGED <<qvars, gvars, fvars, running, stopReturned, ovars, nEvents, ivars>>

\* a handleClient whose loop does not look at the running flag
HandlerScanNoCheck(k) ==
    /\ conn[k] = "scan"
    /\ inbox[k] # <<>>
    /\ hline' = [hline EXCEPT ![k] = Head(inbox[k])]
    /\ inbox' = [inbox EXCEPT ![k] = Tail(@)]
    /\ conn' = [conn EXCEPT ![k] = "put"]
    /\ UNCHANGED <<qvars, gvars, fvars, pvars, ovars, nEvents, fheld, listener,
                   peerClosed, latePuts, nInput, avars>>

\* handleClient: scanner.Scan() returns true with the next line, then
\* `&& t.IsRunning()`
HandlerScan(k) ==
    /\ conn[k] = "scan"
    /\ inbox[k] # <<>>
    /\ hline' = [hline EXCEPT ![k] = Head(inbox[k])]
    /\ inbox' = [inbox EXCEPT ![k] = Tail(@)]
    /\ conn' = [conn EXCEPT ![k] = IF running["tcp"] THEN "put" ELSE "done"]
    /\ UNCHANGED <<qvars, gvars, fvars, pvars, ovars, nEvents, fheld, listener,
                   peerClosed, latePuts, nInput, avars>>

\* handleClient: scanner.Scan() returns false at the end of the stream;
\* deferred: conn.Close()
HandlerEof(k) ==
    /\ conn[k] = "scan"
    /\ inbox[k] = <<>>
    /\ peerClosed[k]
    /\ conn' = [conn EXCEPT ![k] = "done"]
    /\ UNCHANGED <<qvars, gvars, fvars, pvars, ovars, nEvents, fheld, listener, inbox,
                   peerClosed, hline, latePuts, nInput, avars>>

\* handleClient: if line != "" { t.outputQueue.Put(NewEvent(t.tag, {"message": line})) }
HandlerPut(k) ==
    /\ conn[k] = "put"
    /\ IF hline[k] # <<>>
       THEN /\ QueuePut(InputQueue("tcp"),
                        NewEvent(nEvents + 1, InputTag("tcp"), MessageRecord(hline[k])))
            /\ nEvents' = nEvents + 1
       ELSE UNCHANGED <<qvars, nEvents>>
    /\ latePuts' = IF hline[k] # <<>> /\ stopReturned["tcp"]
                   THEN [latePuts EXCEPT ![k] = @ + 1]
                   ELSE latePuts
    /\ conn' = [conn EXCEPT ![k] = "scan"]
    /\ UNCHANGED <<gvars, fvars, pvars, ovars, fheld, listener, inbox, peerClosed,
                   hline, nInput, avars>>

\* a client connects to the listening address
ClientConnect(k) ==
    /\ listener = "open"
    /\ conn[k] = "none"
    /\ conn' = [conn EXCEPT ![k] = "pending"]
    /\ UNCHANGED <<qvars, gvars, fvars, pvars, ovars, nEvents, fheld, listener, inbox,
                   peerClosed, hline, latePuts, nInput, avars>>

\* a connected client sends one line, the environment producing at most
\* `max` inputs
ClientSendUpTo(k, max) ==
    /\ conn[k] \notin {"none", "done"}
    /\ ~peerClosed[k]
    /\ nInput < max
    /\ nInput' = nInput + 1
    /\ \E line \in TcpLines : inbox' = [inbox EXCEPT ![k] = Append(@, line)]
    /\ UNCHANGED <<qvars, gvars, fvars, pvars, ovars, nEvents, fheld, listener, conn,
                   peerClosed, hline, latePuts, avars>>

ClientSend(k) == ClientSendUpTo(k, MaxInput)

\* a connected client closes the connection
ClientClose(k) ==
    /\ conn[k] \notin {"none", "done"}
    /\ ~peerClosed[k]
    /\ peerClosed' = [peerClosed EXCEPT ![k] = TRUE]
    /\ UNCHANGED <<qvars, gvars, fvars, pvars, ovars, nEvents, fheld, listener, conn,
                   inbox, hline, latePuts, nInput, avars>>

(***************************************************************************)
(* TailInput (input.go) and its FileObserver.                              *)
(***************************************************************************)
\* what the environment appends to the tracked file in one write
FileChunks == {<<"a", "\n">>, <<"\n">>}

\* the index of the first "\n" of data, or 0
RECURSIVE NewlineAt(_, _)
NewlineAt(data, i) ==
    IF i > Len(data) THEN 0
    ELSE IF data[i] = "\n" THEN i
    ELSE NewlineAt(data, i + 1)

\* the tokens bufio.Scanner (ScanLines) yields for data: the text before each
\* "\n", and a last unterminated line if there is one
RECURSIVE ScanLines(_)
ScanLines(data) ==
    IF data = <<>> THEN <<>>
    ELSE IF NewlineAt(data, 1) = 0 THEN <<data>>
    ELSE <<SubSeq(data, 1, NewlineAt(data, 1) - 1)>>
             \o ScanLines(SubSeq(data, NewlineAt(data, 1) + 1, Len(data)))

\* the lines of readNewContent that pass `if line != ""`
NonEmpty(line) == line # <<>>
NewLines == SelectSeq(ScanLines(SubSeq(fileData, positions + 1, Len(fileData))), NonEmpty)

\* the byte offsets at which the lines of data that pass `if line != ""`
\* start, for data read from offset `from`
RECURSIVE LineStarts(_, _)
LineStarts(data, from) ==
    IF data = <<>> THEN <<>>
    ELSE IF NewlineAt(data, 1) = 0 THEN <<from>>
    ELSE (IF NewlineAt(data, 1) = 1 THEN <<>> ELSE <<from>>)
             \o LineStarts(SubSeq(data, NewlineAt(data, 1) + 1, Len(data)),
                           from + NewlineAt(data, 1))
NewStarts == LineStarts(SubSeq(fileData, positions + 1, Len(fileData)), positions)

\* the events readNewContent creates, in file order
NewEvents ==
    [k \in 1..Len(NewLines) |->
        NewEvent(nEvents + k, InputTag("tail"), MessageRecord(NewLines[k]))]

\* how many of them t.outputQueue.Put accepts: nothing is dequeued in between
NumPut(q) ==
    IF PutSeesClosed(q) THEN 0
    ELSE IF Len(NewEvents) <= Capacity - QLen(q) THEN Len(NewEvents)
    ELSE Capacity - QLen(q)

\* file.Seek(0, 1) after the scanner has read to the end of the file; a seek
\* past the end of a shorter file succeeds and the scanner reads nothing
NewPosFileLength == Len(fileData)
NewPos == IF positions <= Len(fileData) THEN Len(fileData) ELSE positions

\* a read pass that gives up at the first Put the queue refuses and leaves
\* the offset where it was, to offer the lines again on the next pass
ReadNewContentStopsWhenFull ==
    LET q == InputQueue("tail")
        n == IF NumPut(q) < Len(NewEvents) THEN NumPut(q) + 1 ELSE Len(NewEvents)
        full == NumPut(q) < Len(NewEvents)
    IN  /\ ch' = [ch EXCEPT ![q].buf = @ \o SubSeq(NewEvents, 1, NumPut(q))]
        /\ accepted' = [accepted EXCEPT ![q] = @ \o SubSeq(NewEvents, 1, NumPut(q))]
        /\ nEvents' = nEvents + n
        /\ offered' = offered \o SubSeq(NewStarts, 1, n)
        /\ positions' = IF full THEN positions ELSE NewPos
        /\ posFile' = IF ~full /\ NewPos # positions THEN NewPos ELSE posFile
        /\ tailLog' = IF ~full /\ NewPos # positions THEN "saved" ELSE "same"
        /\ UNCHANGED <<closed, mu, panicked, recvOnClosed, delivered>>

\* TailInput.readNewContent, with savePositions, when no call fails
ReadNewContent ==
    /\ ch' = [ch EXCEPT ![InputQueue("tail")].buf =
                 @ \o SubSeq(NewEvents, 1, NumPut(InputQueue("tail")))]
    /\ accepted' = [accepted EXCEPT ![InputQueue("tail")] =
                       @ \o SubSeq(NewEvents, 1, NumPut(InputQueue("tail")))]
    /\ nEvents' = nEvents + Len(NewEvents)
    /\ positions' = NewPos
    /\ posFile' = IF NewPos # positions THEN NewPos ELSE posFile
    /\ tailLog' = IF NewPos # positions THEN "saved" ELSE "same"
    /\ offered' = offered \o NewStarts
    /\ UNCHANGED <<closed, mu, panicked, recvOnClosed, delivered>>

\* the calls of readNewContent and savePositions whose error is logged
ReadErrors == {"open", "seek", "read", "write"}

\* TailInput.readNewContent when a call fails.  os.Open or file.Seek fails:
\* the pass returns at once.  The scanner fails: the events of the lines
\* scanned so far were put and the pass returns before the offset is touched.
\* savePositions fails: the offset advanced in memory, and the position file
\* keeps its content or is left cut short by os.WriteFile.
ReadNewContentFails ==
    \E err \in ReadErrors :
        /\ tailLog' = err
        /\ IF err \in {"open", "seek"}
           THEN UNCHANGED <<qvars, nEvents, positions, posFile, offered>>
           ELSE IF err = "read"
           THEN /\ \E n \in 0..Len(NewEvents) :
                     /\ ch' = [ch EXCEPT ![InputQueue("tail")].buf =
                            @ \o SubSeq(NewEvents, 1,
                                        IF n < NumPut(InputQueue("tail")) THEN n
                                        ELSE NumPut(InputQueue("tail")))]
                     /\ accepted' = [accepted EXCEPT ![InputQueue("tail")] =
                            @ \o SubSeq(NewEvents, 1,
                                        IF n < NumPut(InputQueue("tail")) THEN n
                                        ELSE NumPut(InputQueue("tail")))]
                     /\ nEvents' = nEvents + n
                     /\ offered' = offered \o SubSeq(NewStarts, 1, n)
                /\ UNCHANGED <<closed, mu, panicked, recvOnClosed, delivered,
                               positions, posFile>>
           ELSE /\ NewPos # positions
                /\ ch' = [ch EXCEPT ![InputQueue("tail")].buf =
                             @ \o SubSeq(NewEvents, 1, NumPut(InputQueue("tail")))]
                /\ accepted' = [accepted EXCEPT ![InputQueue("tail")] =
                                   @ \o SubSeq(NewEvents, 1, NumPut(InputQueue("tail")))]
                /\ nEvents' = nEvents + Len(NewEvents)
                /\ offered' = offered \o NewStarts
                /\ positions' = NewPos
                /\ posFile' \in {posFile, MalformedPosFile}
                /\ UNCHANGED <<closed, mu, panicked, recvOnClosed, delivered>>

\* filepath.Glob(dir/*): the files of the directory, sorted by name
Listed == IF otherFile = Absent THEN <<TrackedPath>> ELSE <<OtherPath, TrackedPath>>

\* getFileModTime: whether os.Stat succeeds, and the time it returns
StatOk(p) == p = TrackedPath \/ otherFile >= 0
ModTime(p) == IF p = TrackedPath THEN fileMod ELSE otherFile

\* the event the first loop of FileObserver.scan reports for a listed file
FileEvent(p) ==
    IF ~StatOk(p) THEN "none"
    ELSE IF lastMod[p] = NoEntry THEN "create"
    ELSE IF ModTime(p) > lastMod[p] THEN "modify"
    ELSE "none"

\* the event FileObserver.scan reports for the tracked file
ScanEvent == FileEvent(TrackedPath)

\* the events of the first loop, in the order of the listing
RECURSIVE ListedEvents(_)
ListedEvents(files) ==
    IF files = <<>> THEN <<>>
    ELSE (IF FileEvent(Head(files)) = "none" THEN <<>>
          ELSE <<[Path |-> Head(files), Type |-> FileEvent(Head(files))]>>)
             \o ListedEvents(Tail(files))

\* the events of the second loop: one delete for each table entry whose path
\* is not in currentFiles
RECURSIVE DeletedEvents(_)
DeletedEvents(paths) ==
    IF paths = <<>> THEN <<>>
    ELSE (IF lastMod[Head(paths)] # NoEntry /\ Head(paths) \notin Range(Listed)
          THEN <<[Path |-> Head(paths), Type |-> "delete"]>>
          ELSE <<>>)
             \o DeletedEvents(Tail(paths))

\* every event one call of FileObserver.scan hands to the callback
ScanEvents == ListedEvents(Listed) \o DeletedEvents(<<OtherPath, TrackedPath>>)

\* the types of the events of a sequence that carry the path p
RECURSIVE EventTypes(_, _)
EventTypes(events, p) ==
    IF events = <<>> THEN <<>>
    ELSE (IF Head(events).Path = p THEN <<Head(events).Type>> ELSE <<>>)
             \o EventTypes(Tail(events), p)

\* a scan that also drops the entry of a listed file on which os.Stat fails
LastModAfterScanDropsUnreadable ==
    [p \in Paths |->
        IF p \notin Range(Listed) \/ ~StatOk(p) THEN NoEntry
        ELSE IF FileEvent(p) = "none" THEN lastMod[p]
        ELSE ModTime(p)]

\* FileObserver.lastMod when scan returns
LastModAfterScan ==
    [p \in Paths |->
        IF p \notin Range(Listed) THEN NoEntry
        ELSE IF FileEvent(p) = "none" THEN lastMod[p]
        ELSE ModTime(p)]

\* the callback of NewTailInput: whether an event runs readNewContent
CallbackRunsAnyPath(event) == event.Type = "modify"
CallbackRunsAnyType(event) == event.Path = TrackedPath
CallbackRuns(event) == event.Path = TrackedPath /\ event.Type = "modify"

\* FileObserver.scan with the callback of NewTailInput: only a modify event
\* of the tracked path runs readNewContent (a scan holds at most one)
ScanDoes(pass) ==
    /\ lastMod' = LastModAfterScan
    /\ otherEvents' = otherEvents \o EventTypes(ScanEvents, OtherPath)
    /\ IF \E i \in 1..Len(ScanEvents) : CallbackRuns(ScanEvents[i])
       THEN pass
       ELSE UNCHANGED <<qvars, nEvents, positions, posFile, tailLog, offered>>

Scan == ScanDoes(ReadNewContent)

\* TailInput.readNewContent with every outcome
ReadPass == ReadNewContent \/ ReadNewContentFails

\* TailInput.Start, up to `go func()`
TailStart ==
    IF running["tail"]
    THEN UNCHANGED pvars
    ELSE /\ running' = [running EXCEPT !["tail"] = TRUE]
         /\ wg' = [wg EXCEPT !["tail"] = @ + 1]
         /\ wpc' = [wpc EXCEPT !["tail"] = "read"]
         /\ stopReturned' = [stopReturned EXCEPT !["tail"] = FALSE]

\* the lifecycle goroutine: t.readNewContent()
TailInitialReadDoes(pass) ==
    /\ wpc["tail"] = "read"
    /\ pass
    /\ wpc' = [wpc EXCEPT !["tail"] = "obs_start"]
    /\ UNCHANGED <<gvars, fvars, running, wg, stopReturned, ovars, fheld, tvars, nInput,
                   fileData, fileMod, obsRunning, obsWg, lastMod, ppc, dvars>>

TailInitialRead == TailInitialReadDoes(ReadNewContent)
TailInitialReadAny == TailInitialReadDoes(ReadPass)

\* the lifecycle goroutine: t.observer.Start(), which scans once and spawns
\* the poller (only this goroutine takes FileObserver.mu)
ObserverStartDoes(pass) ==
    /\ wpc["tail"] = "obs_start"
    /\ IF obsRunning
       THEN UNCHANGED <<qvars, nEvents, positions, posFile, tailLog, offered, obsRunning,
                        obsWg, lastMod, ppc, otherEvents>>
       ELSE /\ obsRunning' = TRUE
            /\ obsWg' = obsWg + 1
            /\ ScanDoes(pass)
            /\ ppc' = "wait"
    /\ wpc' = [wpc EXCEPT !["tail"] = "sleep"]
    /\ UNCHANGED <<gvars, fvars, running, wg, stopReturned, ovars, fheld, tvars, nInput,
                   fileData, fileMod, otherFile>>

ObserverStart == ObserverStartDoes(ReadNewContent)
ObserverStartAny == ObserverStartDoes(ReadPass)

\* the lifecycle goroutine: `for t.IsRunning() { Sleep }` ends, then
\* t.observer.Stop() up to f.wg.Wait()
TailWake ==
    /\ wpc["tail"] = "sleep"
    /\ ~running["tail"]
    /\ obsRunning' = FALSE
    /\ wpc' = [wpc EXCEPT !["tail"] = "obs_wait"]
    /\ UNCHANGED <<qvars, gvars, fvars, running, wg, stopReturned, ovars, nEvents, fheld,
                   tvars, nInput, fileData, fileMod, positions, posFile, tailLog, obsWg,
                   lastMod, ppc, dvars, offered>>

\* the lifecycle goroutine returns without waiting for the poller
TailExitNoJoin ==
    /\ wpc["tail"] = "obs_wait"
    /\ wpc' = [wpc EXCEPT !["tail"] = "exited"]
    /\ wg' = [wg EXCEPT !["tail"] = @ - 1]
    /\ UNCHANGED <<qvars, gvars, fvars, running, stopReturned, ovars, nEvents, ivars>>

\* the lifecycle goroutine: f.wg.Wait() of observer.Stop returns; deferred
\* wg.Done() of the TailInput
TailExit ==
    /\ wpc["tail"] = "obs_wait"
    /\ obsWg = 0
    /\ wpc' = [wpc EXCEPT !["tail"] = "exited"]
    /\ wg' = [wg EXCEPT !["tail"] = @ - 1]
    /\ UNCHANGED <<qvars, gvars, fvars, running, stopReturned, ovars, nEvents, ivars>>

\* a poller whose read of f.running never yields the value Stop wrote
RunningSeenStale == {TRUE}

\* the values the poller's unsynchronised read of f.running can yield: the
\* field is written under FileObserver.mu but read without it
RunningSeen == {obsRunning, TRUE}

\* the poller: `case <-ticker.C: f.scan()`, then `for f.running`;
\* deferred: f.wg.Done()
PollScanDoes(pass) ==
    /\ ppc = "wait"
    /\ ScanDoes(pass)
    /\ \E seen \in RunningSeen :
          IF seen
          THEN UNCHANGED <<ppc, obsWg>>
          ELSE /\ ppc' = "exited"
               /\ obsWg' = obsWg - 1
    /\ UNCHANGED <<gvars, fvars, pvars, ovars, fheld, tvars, nInput, fileData, fileMod,
                   obsRunning, otherFile>>

PollScan == PollScanDoes(ReadNewContent)
PollScanAny == PollScanDoes(ReadPass)

\* what a truncation or replacement leaves in the tracked file
ShortFiles == {<<>>, <<"c", "\n">>}

\* the environment truncates the tracked file or replaces it by a shorter one
TruncateFile ==
    /\ nInput < MaxInput
    /\ nInput' = nInput + 1
    /\ \E data \in ShortFiles : Len(data) < Len(fileData) /\ fileData' = data
    /\ fileMod' = fileMod + 1
    /\ UNCHANGED <<qvars, gvars, fvars, pvars, ovars, nEvents, fheld, tvars, positions,
                   posFile, tailLog, obsRunning, obsWg, lastMod, ppc, dvars, offered>>

\* the environment creates the other file of the directory or writes to it
OtherWrite ==
    /\ nInput < MaxDirOps
    /\ nInput' = nInput + 1
    /\ otherFile' = nInput + 1
    /\ UNCHANGED <<qvars, gvars, fvars, pvars, ovars, nEvents, fheld, tvars, fileData,
                   fileMod, positions, posFile, tailLog, obsRunning, obsWg, lastMod, ppc,
                   otherEvents, offered>>

\* the environment removes the other file
OtherRemove ==
    /\ nInput < MaxDirOps
    /\ nInput' = nInput + 1
    /\ otherFile # Absent
    /\ otherFile' = Absent
    /\ UNCHANGED <<qvars, gvars, fvars, pvars, ovars, nEvents, fheld, tvars, fileData,
                   fileMod, positions, posFile, tailLog, obsRunning, obsWg, lastMod, ppc,
                   otherEvents, offered>>

\* the environment leaves the other file listed but makes os.Stat fail on it
OtherStatFails ==
    /\ nInput < MaxDirOps
    /\ nInput' = nInput + 1
    /\ otherFile >= 0
    /\ otherFile' = StatFails
    /\ UNCHANGED <<qvars, gvars, fvars, pvars, ovars, nEvents, fheld, tvars, fileData,
                   fileMod, positions, posFile, tailLog, obsRunning, obsWg, lastMod, ppc,
                   otherEvents, offered>>

\* the environment appends to the tracked file
AppendFile ==
    /\ nInput < MaxInput
    /\ nInput' = nInput + 1
    /\ \E chunk \in FileChunks : fileData' = fileData \o chunk
    /\ fileMod' = fileMod + 1
    /\ UNCHANGED <<qvars, gvars, fvars, pvars, ovars, nEvents, fheld, tvars, positions,
                   posFile, tailLog, obsRunning, obsWg, lastMod, ppc, dvars, offered>>

(***************************************************************************)
(* Fluentd (fluentd.go).                                                   *)
(***************************************************************************)
\* the order in which Fluentd.Start starts the plugins
StartOrderInputsFirst == inputs \o filters \o outputs
StartOrder == outputs \o filters \o inputs

\* the order in which Fluentd.Stop stops the plugins
StopOrderOutputsFirst == outputs \o filters \o inputs
StopOrder == inputs \o filters \o outputs

\* Start: if f.running { return }
StartNoopNever == FALSE
StartNoop == frunning

\* Stop: if !f.running { return }
StopNoopNever == FALSE
StopNoop == ~frunning

\* wg.Wait() of a plugin's Stop returns when the counter is zero
WaitNever(p) == TRUE
WaitDone(p) == wg[p] = 0

\* a goroutine calls f.Start() or f.Stop()
FluentdCall(c) ==
    /\ ~panicked
    /\ cpc[c] = "idle"
    /\ nCalls < MaxCalls
    /\ \E op \in {"Start", "Stop"} : cop' = [cop EXCEPT ![c] = op]
    /\ cpc' = [cpc EXCEPT ![c] = "lock"]
    /\ nCalls' = nCalls + 1
    /\ UNCHANGED <<qvars, gvars, inputs, filters, outputs, queues, fcfg, frunning, fmu, fidx,
                   startLog, stopLog, pvars, ovars, nEvents, ivars>>

\* f.mu.Lock()
FluentdLock(c) ==
    /\ ~panicked
    /\ cpc[c] = "lock"
    /\ fmu = NoHolder
    /\ fmu' = c
    /\ cpc' = [cpc EXCEPT ![c] = "check"]
    /\ UNCHANGED <<qvars, gvars, inputs, filters, outputs, queues, fcfg, frunning, cop, fidx,
                   nCalls, startLog, stopLog, pvars, ovars, nEvents, ivars>>

\* Start: if f.running { return }; f.running = true
FluentdStartCheck(c) ==
    /\ ~panicked
    /\ cpc[c] = "check"
    /\ cop[c] = "Start"
    /\ IF StartNoop
       THEN /\ cpc' = [cpc EXCEPT ![c] = "unlock"]
            /\ UNCHANGED <<frunning, fidx, startLog>>
       ELSE /\ frunning' = TRUE
            /\ fidx' = 1
            /\ startLog' = <<>>
            /\ cpc' = [cpc EXCEPT ![c] = IF StartOrder = <<>> THEN "unlock" ELSE "start"]
    /\ UNCHANGED <<qvars, gvars, inputs, filters, outputs, queues, fcfg, fmu, cop, nCalls,
                   stopLog, pvars, ovars, nEvents, ivars>>

\* the Start body moves on to the next plugin, or to its end
StartAdvance(c) ==
    /\ fidx' = fidx + 1
    /\ cpc' = [cpc EXCEPT ![c] = IF fidx = Len(StartOrder) THEN "unlock" ELSE "start"]

\* Start: for _, output := range f.outputs { output.Start() }
FluentdStartOutput(c) ==
    /\ cpc[c] = "start"
    /\ StartOrder[fidx] \in OutputIds
    /\ OutputStart(StartOrder[fidx])
    /\ startLog' = Append(startLog, StartOrder[fidx])
    /\ StartAdvance(c)
    /\ UNCHANGED <<qvars, gvars, inputs, filters, outputs, queues, fcfg, frunning, fmu, cop,
                   nCalls, stopLog, buffer, batch, elapsed, flushes, added, residual,
                   flushesAtStop, flushErrs, nEvents, ivars>>

\* Start: for _, filter := range f.filters { filter.Start() }
FluentdStartFilter(c) ==
    /\ ~panicked
    /\ cpc[c] = "start"
    /\ StartOrder[fidx] \in FilterIds
    /\ FilterStart(StartOrder[fidx])
    /\ startLog' = Append(startLog, StartOrder[fidx])
    /\ StartAdvance(c)
    /\ UNCHANGED <<qvars, gvars, inputs, filters, outputs, queues, fcfg, frunning, fmu, cop,
                   nCalls, stopLog, ovars, nEvents, ivars>>

\* Start: for _, input := range f.inputs { input.Start() }
FluentdStartInput(c) ==
    /\ cpc[c] = "start"
    /\ StartOrder[fidx] \in InputIds
    /\ IF StartOrder[fidx] = "tcp"
       THEN \E bound \in BOOLEAN : TcpStart(bound)
       ELSE TailStart /\ UNCHANGED <<listener, latePuts>>
    /\ startLog' = Append(startLog, StartOrder[fidx])
    /\ StartAdvance(c)
    /\ UNCHANGED <<qvars, gvars, inputs, filters, outputs, queues, fcfg, frunning, fmu, cop,
                   nCalls, stopLog, ovars, nEvents, fheld, conn, inbox, peerClosed,
                   hline, nInput, avars>>

\* Stop: if !f.running { return }
FluentdStopCheck(c) ==
    /\ ~panicked
    /\ cpc[c] = "check"
    /\ cop[c] = "Stop"
    /\ IF StopNoop
       THEN /\ cpc' = [cpc EXCEPT ![c] = "unlock"]
            /\ UNCHANGED <<fidx, stopLog>>
       ELSE /\ fidx' = 1
            /\ stopLog' = <<>>
            /\ cpc' = [cpc EXCEPT ![c] = IF StopOrder = <<>> THEN "close" ELSE "stop"]
    /\ UNCHANGED <<qvars, gvars, inputs, filters, outputs, queues, fcfg, frunning, fmu, cop,
                   nCalls, startLog, pvars, ovars, nEvents, ivars>>

\* the Stop body moves on to the next plugin, or to closing the queues
StopAdvance(c) ==
    /\ fidx' = fidx + 1
    /\ cpc' = [cpc EXCEPT ![c] = IF fidx = Len(StopOrder) THEN "close" ELSE "stop"]

\* Stop: for _, input := range f.inputs { input.Stop() }, up to wg.Wait():
\* if !t.IsRunning() { return }; t.SetRunning(false); the TcpInput also
\* closes its listener
FluentdStopInput(c) ==
    /\ cpc[c] = "stop"
    /\ StopOrder[fidx] \in InputIds
    /\ stopLog' = Append(stopLog, StopOrder[fidx])
    /\ LET i == StopOrder[fidx] IN
         IF running[i]
         THEN /\ running' = [running EXCEPT ![i] = FALSE]
              /\ listener' = IF i = "tcp" /\ listener # "none" THEN "closed" ELSE listener
              /\ cpc' = [cpc EXCEPT ![c] = "wait"]
              /\ UNCHANGED fidx
         ELSE /\ StopAdvance(c)
              /\ UNCHANGED <<running, listener>>
    /\ UNCHANGED <<qvars, gvars, inputs, filters, outputs, queues, fcfg, frunning, fmu, cop,
                   nCalls, startLog, wg, wpc, stopReturned, ovars, nEvents, fheld, conn,
                   inbox, peerClosed, hline, latePuts, nInput, avars>>

\* Stop: for _, filter := range f.filters { filter.Stop() }, up to wg.Wait():
\* if !g.IsRunning() { return }; g.SetRunning(false)
FluentdStopFilter(c) ==
    /\ ~panicked
    /\ cpc[c] = "stop"
    /\ StopOrder[fidx] \in FilterIds
    /\ stopLog' = Append(stopLog, StopOrder[fidx])
    /\ LET f == StopOrder[fidx] IN
         IF running[f]
         THEN /\ running' = [running EXCEPT ![f] = FALSE]
              /\ cpc' = [cpc EXCEPT ![c] = "wait"]
              /\ UNCHANGED fidx
         ELSE /\ StopAdvance(c)
              /\ UNCHANGED running
    /\ UNCHANGED <<qvars, gvars, inputs, filters, outputs, queues, fcfg, frunning, fmu, cop,
                   nCalls, startLog, wg, wpc, stopReturned, ovars, nEvents, ivars>>

\* Stop: for _, output := range f.outputs { output.Stop() }, up to wg.Wait():
\* if !o.IsRunning() { return }; o.SetRunning(false)
FluentdStopOutput(c) ==
    /\ cpc[c] = "stop"
    /\ StopOrder[fidx] \in OutputIds
    /\ stopLog' = Append(stopLog, StopOrder[fidx])
    /\ LET o == StopOrder[fidx] IN
         IF running[o]
         THEN /\ running' = [running EXCEPT ![o] = FALSE]
              /\ residual' = [residual EXCEPT ![o] = buffer[o]]
              /\ flushesAtStop' = [flushesAtStop EXCEPT ![o] = Len(flushes[o])]
              /\ cpc' = [cpc EXCEPT ![c] = "wait"]
              /\ UNCHANGED fidx
         ELSE /\ StopAdvance(c)
              /\ UNCHANGED <<running, residual, flushesAtStop>>
    /\ UNCHANGED <<qvars, gvars, inputs, filters, outputs, queues, fcfg, frunning, fmu, cop,
                   nCalls, startLog, wg, wpc, stopReturned, buffer, batch, elapsed,
                   tickReady, flushes, added, flushErrs, nEvents, ivars>>

\* the plugin's Stop: wg.Wait(), and Stop returns
FluentdStopWait(c) ==
    /\ ~panicked
    /\ cpc[c] = "wait"
    /\ WaitDone(StopOrder[fidx])
    /\ stopReturned' = [stopReturned EXCEPT ![StopOrder[fidx]] = TRUE]
    /\ StopAdvance(c)
    /\ UNCHANGED <<qvars, gvars, inputs, filters, outputs, queues, fcfg, frunning, fmu, cop,
                   nCalls, startLog, stopLog, running, wg, wpc, ovars, nEvents, ivars>>

\* Stop: for _, queue := range f.queues { queue.Close() }; f.running = false
FluentdCloseQueues(c) ==
    /\ ~panicked
    /\ cpc[c] = "close"
    /\ closed' = [q \in QueueIds |-> closed[q] \/ q \in Range(queues)]
    /\ ch' = [q \in QueueIds |-> [ch[q] EXCEPT !.closed = @ \/ q \in Range(queues)]]
    /\ frunning' = FALSE
    /\ cpc' = [cpc EXCEPT ![c] = "unlock"]
    /\ UNCHANGED <<mu, panicked, recvOnClosed, accepted, delivered, gvars, inputs,
                   filters, outputs, queues, fcfg, fmu, cop, fidx, nCalls, startLog, stopLog,
                   pvars, ovars, nEvents, ivars>>

\* defer f.mu.Unlock(), and the call returns
FluentdUnlock(c) ==
    /\ ~panicked
    /\ cpc[c] = "unlock"
    /\ fmu' = NoHolder
    /\ cpc' = [cpc EXCEPT ![c] = "idle"]
    /\ UNCHANGED <<qvars, gvars, inputs, filters, outputs, queues, fcfg, frunning, cop, fidx,
                   nCalls, startLog, stopLog, pvars, ovars, nEvents, ivars>>

(***************************************************************************)
(* SpecOutput: a Fluentd with a FileOutput registered, started and stopped *)
(* by two goroutines, and an upstream stage that puts events on the        *)
(* output's queue.                                                         *)
(***************************************************************************)
\* the tags of the events the upstream stage produces
ProducedTags == {TagApp, TagNet}

\* the upstream stage: outputQueue.Put(NewEvent(tag, record))
Produce ==
    /\ nEvents < MaxEvents
    /\ nEvents' = nEvents + 1
    /\ \E tag \in ProducedTags :
         QueuePut("outputQueue", NewEvent(nEvents + 1, tag, MessageRecord(<<"a">>)))
    /\ UNCHANGED <<gvars, fvars, pvars, ovars, ivars>>

InitOutput ==
    /\ InitQueues
    /\ InitCallers
    /\ InitFluentd(<<>>, <<>>, <<"file">>)
    /\ InitPlugins
    /\ InitOutputs
    /\ InitInputs
    /\ InitFilters(CmdConfig)

NextOutput ==
    \/ \E c \in OrchCallers :
        \/ FluentdCall(c)
        \/ FluentdLock(c)
        \/ FluentdStartCheck(c)
        \/ FluentdStartOutput(c)
        \/ FluentdStopCheck(c)
        \/ FluentdStopOutput(c)
        \/ FluentdStopWait(c)
        \/ FluentdCloseQueues(c)
        \/ FluentdUnlock(c)
    \/ \E o \in Range(outputs) :
        \/ OutLoop(o)
        \/ OutTick(o)
        \/ OutGet(o)
        \/ OutAdded(o)
        \/ OutFlush(o)
        \/ OutFinal(o)
        \/ OutExit(o)
        \/ Tick(o)
        \/ TimePasses(o)
    \/ Produce

SpecOutput == InitOutput /\ [][NextOutput]_vars

(***************************************************************************)
(* Spec: the pipeline of cmd.run.  A TailInput and a TcpInput put on the   *)
(* inputQueue, a GrepFilter moves events from the inputQueue to the        *)
(* outputQueue, a FileOutput consumes the outputQueue.  The goroutine of   *)
(* cmd.run calls Fluentd.Start and Fluentd.Stop; the environment appends to*)
(* the tracked file, connects and sends lines.  The output's ticker fires, *)
(* and the run is shorter than one flushInterval.                          *)
(***************************************************************************)
Init ==
    /\ InitQueues
    /\ InitCallers
    /\ InitFluentd(<<"tail", "tcp">>, <<"grep">>, <<"file">>)
    /\ InitPlugins
    /\ InitOutputs
    /\ InitInputs
    /\ InitFilters(CmdConfig)

Next ==
    \/ \E c \in {MainCaller} :
        \/ FluentdCall(c)
        \/ FluentdLock(c)
        \/ FluentdStartCheck(c)
        \/ FluentdStartOutput(c)
        \/ FluentdStartFilter(c)
        \/ FluentdStartInput(c)
        \/ FluentdStopCheck(c)
        \/ FluentdStopInput(c)
        \/ FluentdStopFilter(c)
        \/ FluentdStopOutput(c)
        \/ FluentdStopWait(c)
        \/ FluentdCloseQueues(c)
        \/ FluentdUnlock(c)
    \/ \E o \in Range(outputs) :
        \/ OutLoop(o)
        \/ OutTick(o)
        \/ OutGet(o)
        \/ OutAdded(o)
        \/ OutFlush(o)
        \/ OutFinal(o)
        \/ OutExit(o)
        \/ Tick(o)
    \/ \E f \in Range(filters) :
        \/ FilLoop(f)
        \/ FilGet(f)
        \/ FilForward(f)
    \/ TailInitialRead
    \/ ObserverStart
    \/ TailWake
    \/ TailExit
    \/ PollScan
    \/ AppendFile
    \/ TcpLoop
    \/ TcpAcceptError
    \/ \E k \in ConnIds :
        \/ TcpAccept(k)
        \/ HandlerScan(k)
        \/ HandlerEof(k)
        \/ HandlerPut(k)
        \/ ClientConnect(k)
        \/ ClientSend(k)
        \/ ClientClose(k)

Spec == Init /\ [][Next]_vars

(***************************************************************************)
(* SpecFilter: a Fluentd with one filter registered, a GrepFilter or a     *)
(* RecordTransformerFilter, constructed with one of several argument       *)
(* lists.  An upstream stage puts events of several tags and records on the*)
(* filter's input queue; nothing consumes its output queue.  A panic ends  *)
(* the program.                                                            *)
(***************************************************************************)
\* a record value that is not a string (a number)
NumberValue == [str |-> FALSE, text |-> <<"1">>]

\* the argument lists of NewGrepFilter: an exact pattern; a prefix pattern
\* followed by `*`; an exact pattern followed by an empty pattern
GrepConfigs ==
    {[matchTags |-> mt, key |-> "message", pattern |-> <<"a">>, exclude |-> ex,
      addFields |-> EmptyRecord, removeFields |-> <<>>] :
        mt \in {<<TagApp>>, <<<<"a", "*">>, <<"*">>>>, <<TagApp, <<>>>>},
        ex \in BOOLEAN}

\* the argument lists of NewRecordTransformerFilter: "x" is added and
\* removed, "message" is added or overwritten, "y" is removed, "z" is in
\* neither list
TransformConfigs ==
    {[matchTags |-> mt, key |-> "message", pattern |-> <<"a">>, exclude |-> FALSE,
      addFields |-> [x |-> NumberValue, message |-> StringValue(<<"c">>)],
      removeFields |-> <<"x", "y">>] :
        mt \in {<<TagApp>>, <<<<"*">>>>}}

\* the tags and records of the events the upstream stage produces
FilterEvents ==
    {[tag |-> TagApp, record |-> MessageRecord(<<"b", "a">>)],
     [tag |-> TagApp, record |-> MessageRecord(<<"b">>)],
     [tag |-> TagNet, record |-> [message |-> NumberValue, z |-> StringValue(<<"a">>)]],
     [tag |-> <<>>, record |-> [k \in {"y"} |-> StringValue(<<"a">>)]]}

\* the upstream stage: inputQueue.Put(NewEvent(tag, record))
ProduceIn ==
    /\ ~panicked
    /\ nEvents < MaxFiltered
    /\ nEvents' = nEvents + 1
    /\ \E ev \in FilterEvents :
         QueuePut("inputQueue", NewEvent(nEvents + 1, ev.tag, ev.record))
    /\ UNCHANGED <<gvars, fvars, pvars, ovars, ivars>>

InitFilter ==
    /\ InitQueues
    /\ InitCallers
    /\ InitPlugins
    /\ InitOutputs
    /\ InitInputs
    /\ \/ /\ InitFluentd(<<>>, <<"grep">>, <<>>)
          /\ \E cfg \in GrepConfigs : InitFilters([f \in FilterIds |-> cfg])
       \/ /\ InitFluentd(<<>>, <<"transform">>, <<>>)
          /\ \E cfg \in TransformConfigs : InitFilters([f \in FilterIds |-> cfg])

NextFilter ==
    \/ \E c \in {MainCaller} :
         \/ FluentdCall(c)
         \/ FluentdLock(c)
         \/ FluentdStartCheck(c)
         \/ FluentdStartFilter(c)
         \/ FluentdStopCheck(c)
         \/ FluentdStopFilter(c)
         \/ FluentdStopWait(c)
         \/ FluentdCloseQueues(c)
         \/ FluentdUnlock(c)
    \/ \E f \in FilterIds :
         \/ FilLoop(f)
         \/ FilGet(f)
         \/ FilForward(f)
    \/ ProduceIn

SpecFilter == InitFilter /\ [][NextFilter]_vars

(***************************************************************************)
(* SpecTail: a Fluentd with one TailInput registered, constructed over a   *)
(* tracked file and a position file drawn from several contents.  File and *)
(* position-file calls can fail; the environment appends to the file,      *)
(* truncates it or replaces it.  Nothing consumes the output queue.        *)
(***************************************************************************)
\* the contents of the tracked file at construction
TailFiles == {<<>>, <<"a", "b", "\n", "\n", "c">>}

\* the contents of the position file at construction
PosFiles == {NoPosFile, MalformedPosFile, NullPosFile, 0, 1, 2, 7}

InitTailSpec ==
    /\ \E data \in TailFiles, content \in PosFiles :
          /\ InitTailAt(data, content)
          /\ panicked = LoadPanics(content)
    /\ ch = [q \in QueueIds |-> NewQueue]
    /\ closed = [q \in QueueIds |-> FALSE]
    /\ mu = [q \in QueueIds |-> NoHolder]
    /\ recvOnClosed = FALSE
    /\ accepted = [q \in QueueIds |-> <<>>]
    /\ delivered = [q \in QueueIds |-> <<>>]
    /\ InitCallers
    /\ InitFluentd(<<"tail">>, <<>>, <<>>)
    /\ InitPlugins
    /\ InitOutputs
    /\ fheld = [f \in FilterIds |-> Nil]
    /\ listener = "none"
    /\ conn = [k \in ConnIds |-> "none"]
    /\ inbox = [k \in ConnIds |-> <<>>]
    /\ peerClosed = [k \in ConnIds |-> FALSE]
    /\ hline = [k \in ConnIds |-> <<>>]
    /\ latePuts = [k \in ConnIds |-> 0]
    /\ nInput = 0
    /\ InitFilters(CmdConfig)

NextTail ==
    \/ \E c \in {MainCaller} :
         \/ FluentdCall(c)
         \/ FluentdLock(c)
         \/ FluentdStartCheck(c)
         \/ FluentdStartInput(c)
         \/ FluentdStopCheck(c)
         \/ FluentdStopInput(c)
         \/ FluentdStopWait(c)
         \/ FluentdCloseQueues(c)
         \/ FluentdUnlock(c)
    \/ TailInitialReadAny
    \/ ObserverStartAny
    \/ TailWake
    \/ TailExit
    \/ PollScanAny
    \/ AppendFile
    \/ TruncateFile

SpecTail == InitTailSpec /\ [][NextTail]_vars

(***************************************************************************)
(* Claims about the filters, checked under SpecFilter.                     *)
(***************************************************************************)
\* the filter f is about to run its loop body on the event it dequeued, and
\* the step taken is that loop body
FilterBodyStep(f) == wpc[f] = "fwd" /\ wpc'[f] = "run"

\* the step put e on queue q
PutOn(q, e) == ch'[q] = ChanSend(ch[q], e) /\ accepted'[q] = Append(accepted[q], e)

\* the step put nothing on queue q
NothingPutOn(q) == ch'[q] = ch[q] /\ accepted'[q] = accepted[q]

\* C14: for every event whose tag matches a GrepFilter, the loop body keeps
\* the event exactly when (matched and not exclude) or (not matched and
\* exclude), where matched means record[key] is present, is a string and the
\* pattern matches it.  A kept event is passed unmodified to Put on the
\* output queue, which enqueues it when the queue has room; for a dropped
\* event the output queue is left as it was.
C14_GrepKeepRule ==
    [][\A f \in Range(filters) \cap {"grep"} :
         (FilterBodyStep(f) /\ FilterMatches(FilterTags(f), fheld[f].tag) = "true") =>
            LET e == fheld[f]
                q == FilterOutputQueue(f)
                isString == GrepKey(f) \in DOMAIN e.record /\ e.record[GrepKey(f)].str
                matched == isString /\ MatchString(GrepPattern(f), e.record[GrepKey(f)].text)
                keep == (matched /\ ~GrepExclude(f)) \/ (~matched /\ GrepExclude(f))
            IN  IF keep /\ PutOk(q) THEN PutOn(q, e) ELSE NothingPutOn(q)]_vars

\* an excluding GrepFilter has kept a matching-tag event that lacks the field
\* and has dropped a matching-tag event although the output queue had room
C14_Witness ==
    /\ "grep" \in Range(filters)
    /\ GrepExclude("grep")
    /\ wpc["grep"] = "run"
    /\ Len(accepted["outputQueue"]) < Capacity
    /\ \E i \in 1..Len(accepted["outputQueue"]) :
         LET e == accepted["outputQueue"][i] IN
         /\ FilterMatches(FilterTags("grep"), e.tag) = "true"
         /\ GrepKey("grep") \notin DOMAIN e.record
    /\ \E i \in 1..Len(delivered["inputQueue"]) :
         LET e == delivered["inputQueue"][i] IN
         /\ FilterMatches(FilterTags("grep"), e.tag) = "true"
         /\ e \notin Range(accepted["outputQueue"])

\* C15: every event a filter (GrepFilter or RecordTransformerFilter) dequeues
\* whose tag matches none of its patterns is passed to Put on the output
\* queue with its tag and record unmodified, whatever its record holds; Put
\* enqueues it when the queue has room.  The match step makes no other
\* change and never discards the event itself.
C15_PassThrough ==
    [][\A f \in Range(filters) :
         (FilterBodyStep(f) /\ FilterMatches(FilterTags(f), fheld[f].tag) = "false") =>
            /\ IF PutOk(FilterOutputQueue(f))
               THEN PutOn(FilterOutputQueue(f), fheld[f])
               ELSE NothingPutOn(FilterOutputQueue(f))
            /\ fheld'[f] = Nil]_vars

\* a RecordTransformerFilter has forwarded, unmodified, an event whose tag
\* matches none of its patterns and whose record Filter would have changed
C15_Witness ==
    /\ "transform" \in Range(filters)
    /\ wpc["transform"] = "run"
    /\ \E i \in 1..Len(accepted["outputQueue"]) :
         LET e == accepted["outputQueue"][i] IN
         /\ FilterMatches(FilterTags("transform"), e.tag) = "false"
         /\ e \in Range(delivered["inputQueue"])
         /\ TransformResult("transform", e) # e

\* C16: RecordTransformerFilter applies add-then-remove.  For a matching-tag
\* event the record passed on has the keys of the original record and of
\* addFields, less every key listed in removeFields; a key of addFields has
\* the value addFields gives it and any other key keeps its original value.
\* A key in both addFields and removeFields is absent, and tag and identity
\* of the event are unchanged.
C16_AddThenRemove ==
    [][\A f \in Range(filters) \cap {"transform"} :
         (/\ FilterBodyStep(f)
          /\ FilterMatches(FilterTags(f), fheld[f].tag) = "true"
          /\ PutOk(FilterOutputQueue(f))) =>
            LET q == FilterOutputQueue(f)
                old == fheld[f].record
                out == accepted'[q][Len(accepted'[q])]
            IN  /\ Len(accepted'[q]) = Len(accepted[q]) + 1
                /\ out.id = fheld[f].id
                /\ out.tag = fheld[f].tag
                /\ DOMAIN out.record =
                       (DOMAIN old \cup DOMAIN AddFields(f)) \ Range(RemoveFields(f))
                /\ \A k \in DOMAIN out.record :
                       out.record[k] = IF k \in DOMAIN AddFields(f)
                                       THEN AddFields(f)[k] ELSE old[k]
                /\ \A k \in DOMAIN AddFields(f) \cap Range(RemoveFields(f)) :
                       k \notin DOMAIN out.record]_vars

\* a RecordTransformerFilter has passed on a matching-tag event whose record
\* had a key to overwrite and a key in neither list, with the key of both
\* lists absent, and one whose record had a key to remove
C16_Witness ==
    /\ "transform" \in Range(filters)
    /\ wpc["transform"] = "run"
    /\ \E i, j \in 1..Len(delivered["inputQueue"]) :
         \E m, n \in 1..Len(accepted["outputQueue"]) :
            LET e1 == delivered["inputQueue"][i]
                e2 == delivered["inputQueue"][j]
                o1 == accepted["outputQueue"][m]
                o2 == accepted["outputQueue"][n]
            IN  /\ o1.id = e1.id /\ o2.id = e2.id
                /\ {"message", "z"} \subseteq DOMAIN e1.record
                /\ DOMAIN o1.record = {"message", "z"}
                /\ o1.record["message"] # e1.record["message"]
                /\ o1.record["z"] = e1.record["z"]
                /\ "y" \in DOMAIN e2.record
                /\ DOMAIN o2.record = {"message"}

\* C17 as stated: RecordTransformerFilter never drops an event: once its
\* loop body has run on an event it dequeued from its input queue, matching
\* or not, that event has appeared on its output queue.
C17_NeverDrops ==
    \A f \in Range(filters) \cap {"transform"} :
        wpc[f] \in {"run", "get"} =>
            \A i \in 1..Len(delivered[FilterInputQueue(f)]) :
                \E j \in 1..Len(accepted[FilterOutputQueue(f)]) :
                    accepted[FilterOutputQueue(f)][j].id = delivered[FilterInputQueue(f)][i].id

\* C17 amended: RecordTransformerFilter never discards an event itself: for
\* every event it dequeues, matching or not, its loop body calls Put on the
\* output queue with that event (same identity and tag), and the event
\* appears on the output queue exactly when Put accepts it, that is when the
\* queue is open and has room; when the output queue is full the event is
\* lost and the queue is left as it was.
C17_OfferedToPut ==
    [][\A f \in Range(filters) \cap {"transform"} :
         FilterBodyStep(f) =>
            LET q == FilterOutputQueue(f) IN
            IF PutOk(q)
            THEN /\ \E o \in {TransformResult(f, fheld[f]), fheld[f]} : PutOn(q, o)
                 /\ accepted'[q][Len(accepted'[q])].id = fheld[f].id
                 /\ accepted'[q][Len(accepted'[q])].tag = fheld[f].tag
            ELSE NothingPutOn(q)]_vars

\* a RecordTransformerFilter has passed on a matching and a non-matching
\* event, and its loop body has run on a further event while the output
\* queue was full
C17_Witness ==
    /\ "transform" \in Range(filters)
    /\ wpc["transform"] = "run"
    /\ ~CanSend(ch["outputQueue"])
    /\ Len(delivered["inputQueue"]) > Len(accepted["outputQueue"])
    /\ \E i, j \in 1..Len(accepted["outputQueue"]) :
         /\ FilterMatches(FilterTags("transform"), accepted["outputQueue"][i].tag) = "true"
         /\ FilterMatches(FilterTags("transform"), accepted["outputQueue"][j].tag) = "false"

\* the tag grammar: the pattern is `*`, or it ends in `*` and the tag starts
\* with the text before the `*`, or it equals the tag
GrammarMatches(pattern, tag) ==
    \/ pattern = <<"*">>
    \/ /\ pattern # <<>>
       /\ pattern[Len(pattern)] = "*"
       /\ Len(tag) >= Len(pattern) - 1
       /\ SubSeq(tag, 1, Len(pattern) - 1) = SubSeq(pattern, 1, Len(pattern) - 1)
    \/ pattern = tag

\* C18: tag matching, for every tag and every list of patterns (the empty
\* tag and the empty pattern included): whenever a filter calls Matches on
\* the tag of an event it dequeued, Matches returns a result, and the result
\* is true exactly when some pattern of the list matches the tag by the
\* grammar.
C18_MatchesTotal ==
    \A f \in Range(filters) :
        wpc[f] = "fwd" =>
            /\ FilterMatches(FilterTags(f), fheld[f].tag) \in {"true", "false"}
            /\ FilterMatches(FilterTags(f), fheld[f].tag) = "true" <=>
                   \E i \in 1..Len(FilterTags(f)) :
                       GrammarMatches(FilterTags(f)[i], fheld[f].tag)

(***************************************************************************)
(* Claims about the TailInput, checked under SpecTail.                     *)
(***************************************************************************)
\* the offset a position file records for the tracked path, a missing or
\* malformed file counting as 0
Recorded(content) == IF content >= 0 THEN content ELSE 0

\* C19 as stated: while a TailInput runs, the stored offset of the tracked
\* path never decreases, also across passes over a truncated or replaced
\* file; it changes only at the end of a read pass that completed without an
\* open, seek or read error; and each change is followed at once by the
\* write of the position file, so that after the pass the persisted offset
\* equals the in-memory offset.
C19_OffsetPersisted ==
    [][/\ positions' >= positions
       /\ positions' # positions =>
             /\ tailLog' \notin {"open", "seek", "read"}
             /\ posFile' = positions']_vars

\* C19 amended: the stored offset never decreases, also across passes over a
\* truncated or replaced file; it changes only at the end of a read pass
\* that completed without an open, seek or read error, to the position the
\* scan reached; each change is followed at once by an attempt to write the
\* position file.  When the write succeeds the persisted offset equals the
\* in-memory offset after the pass; when it fails the error is only logged,
\* the in-memory offset stays advanced and the position file keeps its old
\* content or is left unreadable.
C19_OffsetMonotone ==
    [][/\ positions' >= positions
       /\ positions' # positions =>
             /\ tailLog' \in {"saved", "write"}
             /\ positions' = Len(fileData)
             /\ tailLog' = "saved" => posFile' = positions'
             /\ tailLog' = "write" => posFile' \in {posFile, MalformedPosFile}
       /\ positions' = positions => posFile' = posFile]_vars

\* a pass advanced and persisted the offset, the file was then cut short, and
\* a later pass over the shorter file left the offset where it was
C19_Witness ==
    /\ running["tail"]
    /\ positions > Len(fileData)
    /\ posFile = positions
    /\ accepted[InputQueue("tail")] # <<>>
    /\ lastMod[TrackedPath] = fileMod
    /\ fileMod > 0
    /\ tailLog = "same"

\* the maximal runs of characters other than "\n" of data that lie after the
\* first p characters, as pairs of first and last index
LinesAfter(data, p) ==
    {r \in ((p + 1)..Len(data)) \X ((p + 1)..Len(data)) :
        /\ r[1] <= r[2]
        /\ \A i \in r[1]..r[2] : data[i] # "\n"
        /\ r[1] = p + 1 \/ data[r[1] - 1] = "\n"
        /\ r[2] = Len(data) \/ data[r[2] + 1] = "\n"}

\* the first eager read pass of a TailInput completes without a logged error
FirstPass ==
    /\ wpc["tail"] = "read"
    /\ wpc'["tail"] = "obs_start"
    /\ stopLog = <<>>
    /\ tailLog' \in {"saved", "same"}

\* C20: resume from the persisted offset.  Constructing a TailInput over a
\* position file always succeeds, a missing or malformed file counting as
\* offset 0; with the position file recording offset p, the eager read pass
\* of Start emits one event {"message": line} for each non-empty line at or
\* after byte p, in file order, and nothing else, and leaves the persisted
\* offset equal to the length of the file.
C20_ResumeFromOffset ==
    /\ [](~panicked)
    /\ [][FirstPass =>
            LET q == InputQueue("tail")
                lines == LinesAfter(fileData, Recorded(posFile))
                emitted == SubSeq(accepted'[q], Len(accepted[q]) + 1, Len(accepted'[q]))
            IN  /\ nEvents' = nEvents + Cardinality(lines)
                /\ Len(emitted) = Cardinality(lines)
                /\ \A k \in 1..Len(emitted) :
                      \E r \in lines :
                         /\ Cardinality({t \in lines : t[1] < r[1]}) = k - 1
                         /\ emitted[k].tag = InputTag("tail")
                         /\ emitted[k].record = MessageRecord(SubSeq(fileData, r[1], r[2]))
                /\ Recorded(posFile') = Len(fileData)]_vars

(***************************************************************************)
(* Claims about the output plugins, checked under SpecOutput.              *)
(***************************************************************************)
\* the events of a sequence of batches, in order
RECURSIVE Flatten(_)
Flatten(bs) == IF bs = <<>> THEN <<>> ELSE Head(bs) \o Flatten(Tail(bs))

\* s is an initial part of t
IsPrefix(s, t) == Len(s) <= Len(t) /\ SubSeq(t, 1, Len(s)) = s

\* C9: when Stop cleared the running flag of an output whose buffer held
\* events, then by the time that Stop has returned exactly one more Flush call
\* has been made, and its batch starts with all those events; and no Flush
\* call of an output is made while its Stop has returned (until a new Start).
C9_OneFinalFlush ==
    /\ [](\A o \in Range(outputs) :
            (stopReturned[o] /\ residual[o] # <<>>) =>
                /\ Len(flushes[o]) = flushesAtStop[o] + 1
                /\ IsPrefix(residual[o], flushes[o][Len(flushes[o])]))
    /\ [][\A o \in Range(outputs) : stopReturned[o] => flushes'[o] = flushes[o]]_vars

\* C9 witness: Stop has returned for an output that held one buffered event
\* when it was stopped, and Fluentd.Stop has returned too
C9_Witness ==
    \E o \in Range(outputs) :
        /\ stopReturned[o] /\ residual[o] # <<>>
        /\ Len(flushes[o]) = flushesAtStop[o] + 1
        /\ cpc[MainCaller] = "idle" /\ ~frunning

\* C10: at every moment the events an output has added to its buffer are,
\* in order and each exactly once, those of the batches passed to Flush, then
\* those of the batch taken for the next Flush, then those still buffered;
\* once the output's Stop has returned all of them have been passed to Flush.
C10_BufferedEventsFlushedOnce ==
    \A o \in Range(outputs) :
        /\ Flatten(flushes[o]) \o batch[o] \o buffer[o] = added[o]
        /\ \A i, j \in 1..Len(added[o]) : added[o][i] = added[o][j] => i = j
        /\ stopReturned[o] => Flatten(flushes[o]) = added[o]

\* C10 witness: Stop has returned after two events were buffered and
\* flushed in two batches
C10_Witness ==
    \E o \in Range(outputs) :
        /\ stopReturned[o]
        /\ Len(added[o]) = 2
        /\ Len(flushes[o]) = 2

(***************************************************************************)
(* Claims about the orchestrator.  C5, C6 and C7 are checked under Spec,   *)
(* C8 under SpecOutput, where two goroutines call Start and Stop.          *)
(***************************************************************************)
\* the goroutines a plugin's Stop joins have all exited (or were never
\* spawned): the goroutine of Start and, for the TailInput, the poller
Quiescent(p) ==
    /\ wpc[p] \in {"none", "exited"}
    /\ p = "tail" => ppc \in {"none", "exited"}

\* a goroutine is inside the body of Fluentd.Stop, past the running check
InStopBody == \E c \in OrchCallers : cpc[c] \in {"stop", "wait", "close"}

\* C5: Fluentd.Start invokes the Start of every registered output, then of
\* every registered filter, then of every registered input; and whenever the
\* running flag of an input is set, the running flag of every registered
\* filter and of every registered output is set.
C5_ConsumersStartFirst ==
    /\ IsPrefix(startLog, outputs \o filters \o inputs)
    /\ \A c \in OrchCallers :
         (cpc[c] = "start" => Len(startLog) = fidx - 1)
    /\ \A i \in Range(inputs) :
         running[i] => \A p \in Range(filters) \cup Range(outputs) : running[p]

\* C5 witness: Start has returned, both inputs run, and an input has put an
\* event on its queue
C5_Witness ==
    /\ cpc[MainCaller] = "idle"
    /\ startLog = <<"file", "grep", "tail", "tcp">>
    /\ running["tail"] /\ running["tcp"]
    /\ accepted["inputQueue"] # <<>>

\* C6: Fluentd.Stop invokes the Stop of every input, then of every filter,
\* then of every output; when the Stop of a filter or an output is invoked,
\* every input has its running flag cleared and its joined goroutines have
\* exited; when the Stop of an output is invoked, the same holds of every
\* filter; and the queues are closed only after every plugin, the outputs
\* last, has been stopped and joined.
C6_ProducersStopFirst ==
    /\ IsPrefix(stopLog, inputs \o filters \o outputs)
    /\ InStopBody =>
         /\ (\E p \in Range(stopLog) : p \in FilterIds \cup OutputIds) =>
               \A i \in Range(inputs) : ~running[i] /\ Quiescent(i)
         /\ (\E p \in Range(stopLog) : p \in OutputIds) =>
               \A f \in Range(filters) : ~running[f] /\ Quiescent(f)
    /\ \A c \in OrchCallers :
         cpc[c] = "close" =>
            /\ stopLog = inputs \o filters \o outputs
            /\ \A p \in Range(stopLog) : ~running[p] /\ Quiescent(p)

\* C6 witness: Stop is about to close the queues after it stopped and joined
\* two running inputs, the filter and the output
C6_Witness ==
    /\ cpc[MainCaller] = "close"
    /\ stopLog = <<"tail", "tcp", "grep", "file">>
    /\ \A p \in Range(stopLog) : stopReturned[p]
    /\ accepted["inputQueue"] # <<>>

\* C7: once Fluentd.Stop has run on a running pipeline (it stopped every
\* plugin and cleared Fluentd.running), the inputQueue and the outputQueue
\* are closed.
C7_QueuesClosedAfterStop ==
    (~frunning /\ stopLog = StopOrder /\ StopOrder # <<>>) =>
        \A q \in QueueIds : closed[q]

\* C8: the goroutines inside Fluentd.Start / Fluentd.Stop are serialized by
\* Fluentd.mu; a Start that finds Fluentd.running set, and a Stop that finds
\* it clear, goes straight to its return: that step and the return start and
\* stop no plugin, close no queue and leave the fields of the Fluentd as they
\* were.
C8_StartStopIdempotent ==
    /\ [](\A c, d \in OrchCallers :
            (cpc[c] \notin {"idle", "lock"} /\ cpc[d] \notin {"idle", "lock"}) => c = d)
    /\ [][\A c \in OrchCallers :
            \/ /\ cpc[c] = "check"
               /\ cpc'[c] # "check"
               /\ \/ cop[c] = "Start" /\ frunning
                  \/ cop[c] = "Stop" /\ ~frunning
            \/ cpc[c] = "unlock" /\ cpc'[c] # "unlock"
            =>
            /\ cpc'[c] = IF cpc[c] = "check" THEN "unlock" ELSE "idle"
            /\ UNCHANGED <<running, wg, wpc, stopReturned, qvars, inputs, filters,
                           outputs, queues, fcfg, frunning, startLog, stopLog, tvars>>]_vars

\* C8 witness: after the Start of one goroutine has returned, the Start of the
\* other found the pipeline running and is about to return
C8_Witness ==
    /\ nCalls = 2
    /\ cop[1] = "Start" /\ cpc[1] = "idle"
    /\ cop[2] = "Start" /\ cpc[2] = "unlock"
    /\ frunning
    /\ running["file"]
    /\ startLog = <<"file">>

(***************************************************************************)
(* Claims about the flush conditions, checked under SpecOutput.            *)
(***************************************************************************)
\* C11: the buffer of an output never holds more than bufferSize events and
\* holds bufferSize events only right after AddToBuffer; the output's next
\* step then takes the whole buffer, whether or not flushInterval has elapsed
\* or a tick is pending, and the step after passes it to Flush; no event is
\* taken from the output's queue in between.
C11_SizeTriggeredFlush ==
    /\ [](\A o \in Range(outputs) :
            /\ Len(buffer[o]) <= BufferSize
            /\ Len(buffer[o]) = BufferSize => wpc[o] = "added"
            /\ wpc[o] = "add_flush" => batch[o] # <<>>)
    /\ [][\A o \in Range(outputs) :
            /\ (wpc[o] = "added" /\ Len(buffer[o]) >= BufferSize /\ wpc'[o] # wpc[o]) =>
                  /\ wpc'[o] = "add_flush"
                  /\ batch'[o] = buffer[o]
                  /\ buffer'[o] = <<>>
                  /\ delivered' = delivered
            /\ (wpc[o] = "add_flush" /\ wpc'[o] # wpc[o]) =>
                  /\ flushes'[o] = Append(flushes[o], batch[o])
                  /\ delivered' = delivered
            /\ (wpc[o] \in {"added", "add_flush"}) =>
                  delivered'[OutputQueue(o)] = delivered[OutputQueue(o)]]_vars

\* C11 witness: a running output has just passed bufferSize events to Flush
\* from the branch that added the last of them, with flushInterval not
\* elapsed and no tick consumed
C11_Witness ==
    \E o \in Range(outputs) :
        /\ running[o]
        /\ wpc[o] = "run"
        /\ flushes[o] # <<>>
        /\ Len(flushes[o][1]) = BufferSize
        /\ flushes[o][1] = added[o]
        /\ ~elapsed[o]
        /\ ~tickReady[o]

(***************************************************************************)
(* SpecOutputFair: the FileOutput of SpecOutput, started and stopped by the*)
(* goroutine of cmd.run, with the scheduling the runtime provides: the     *)
(* output goroutine keeps taking steps, its ticker keeps firing and time   *)
(* passes.                                                                 *)
(***************************************************************************)
\* the steps of the goroutine that FileOutput.Start spawned
OutputStep(o) ==
    \/ OutLoop(o)
    \/ OutTick(o)
    \/ OutGet(o)
    \/ OutAdded(o)
    \/ OutFlush(o)
    \/ OutFinal(o)
    \/ OutExit(o)

NextOutputFair ==
    \/ \E c \in {MainCaller} :
        \/ FluentdCall(c)
        \/ FluentdLock(c)
        \/ FluentdStartCheck(c)
        \/ FluentdStartOutput(c)
        \/ FluentdStopCheck(c)
        \/ FluentdStopOutput(c)
        \/ FluentdStopWait(c)
        \/ FluentdCloseQueues(c)
        \/ FluentdUnlock(c)
    \/ OutputStep("file")
    \/ Tick("file")
    \/ TimePasses("file")
    \/ Produce

FairOutput ==
    /\ WF_vars(OutputStep("file"))
    /\ WF_vars(Tick("file"))
    /\ WF_vars(TimePasses("file"))

SpecOutputFair == InitOutput /\ [][NextOutputFair]_vars /\ FairOutput

\* C12: when a running output handles a tick with flushInterval elapsed, it
\* takes the whole buffer, however few events it holds, and passes it to
\* Flush if it is not empty; and again and again every event the output has
\* buffered so far has been passed to Flush, so each buffered event
\* eventually is, whether or not another event arrives.
C12_TimeTriggeredFlush ==
    /\ [][\A o \in Range(outputs) :
            /\ (wpc[o] = "select" /\ tickReady[o] /\ elapsed[o] /\ wpc'[o] # wpc[o]) =>
                  /\ wpc'[o] = "tick_flush"
                  /\ batch'[o] = buffer[o]
                  /\ buffer'[o] = <<>>
            /\ (wpc[o] = "tick_flush" /\ batch[o] # <<>> /\ wpc'[o] # wpc[o]) =>
                  flushes'[o] = Append(flushes[o], batch[o])]_vars
    /\ []<>(Flatten(flushes["file"]) = added["file"])

\* C12 witness: a running output has taken, at a tick, a buffer that holds
\* events but fewer than bufferSize
C12_Witness ==
    \E o \in Range(outputs) :
        /\ running[o]
        /\ wpc[o] = "tick_flush"
        /\ batch[o] # <<>>
        /\ Len(batch[o]) < BufferSize

\* C13: every event an output has added to its buffer, and so every event of
\* a batch it passed to Flush, has a tag that matches the output's matchTags
\* pattern.
C13_OnlyMatchingTagsBuffered ==
    \A o \in Range(outputs) :
        /\ \A i \in 1..Len(added[o]) :
              MatchesOne(OutputTag(o), added[o][i].tag) = "true"
        /\ \A i \in 1..Len(Flatten(flushes[o])) :
              MatchesOne(OutputTag(o), Flatten(flushes[o])[i].tag) = "true"

(***************************************************************************)
(* SpecAppend: the TailInput of SpecTail over a tracked file the           *)
(* environment only appends to.                                            *)
(***************************************************************************)
NextAppend ==
    \/ \E c \in {MainCaller} :
         \/ FluentdCall(c)
         \/ FluentdLock(c)
         \/ FluentdStartCheck(c)
         \/ FluentdStartInput(c)
         \/ FluentdStopCheck(c)
         \/ FluentdStopInput(c)
         \/ FluentdStopWait(c)
         \/ FluentdCloseQueues(c)
         \/ FluentdUnlock(c)
    \/ TailInitialReadAny
    \/ ObserverStartAny
    \/ TailWake
    \/ TailExit
    \/ PollScanAny
    \/ AppendFile

SpecAppend == InitTailSpec /\ [][NextAppend]_vars

(***************************************************************************)
(* Claims about the TailInput, checked under SpecAppend.                   *)
(***************************************************************************)
\* C21: for a tracked file that is only appended to, no line is offered to
\* the output queue twice: the lines the read passes have offered start at
\* pairwise different byte offsets of the file.
C21_NoLineTwice ==
    \A i, j \in 1..Len(offered) : i # j => offered[i] # offered[j]

(***************************************************************************)
(* Further claims about the TailInput, checked under SpecTail.             *)
(***************************************************************************)
\* C22: once Stop has returned on a running TailInput, its lifecycle
\* goroutine and its poller goroutine have both exited, and from then on no
\* scan changes the modification table, no read pass moves the offset, writes
\* the position file or logs, and no event is offered to the output queue.
C22_StopJoinsBoth ==
    /\ [](stopReturned["tail"] =>
             /\ wpc["tail"] = "exited"
             /\ ppc = "exited"
             /\ ~obsRunning
             /\ obsWg = 0)
    /\ [][(stopReturned["tail"] /\ stopReturned'["tail"]) =>
             UNCHANGED <<lastMod, positions, posFile, tailLog, offered, nEvents, ch,
                         accepted, wpc, ppc>>]_vars

\* C22 witness: Stop has returned on a TailInput whose poller had scanned and
\* run a read pass
C22_Witness ==
    /\ stopReturned["tail"]
    /\ ppc = "exited"
    /\ lastMod[TrackedPath] > 0
    /\ offered # <<>>

(***************************************************************************)
(* SpecTcp: a Fluentd with a TcpInput and then a TailInput registered, no  *)
(* filter and no output.  net.Listen succeeds or fails; a client connects, *)
(* sends lines and closes.  Nothing consumes the output queue.             *)
(***************************************************************************)
InitTcp ==
    /\ InitQueues
    /\ InitCallers
    /\ InitFluentd(<<"tcp", "tail">>, <<>>, <<>>)
    /\ InitPlugins
    /\ InitOutputs
    /\ InitInputs
    /\ InitFilters(CmdConfig)

NextTcp ==
    \/ \E c \in {MainCaller} :
        \/ FluentdCall(c)
        \/ FluentdLock(c)
        \/ FluentdStartCheck(c)
        \/ FluentdStartInput(c)
        \/ FluentdStopCheck(c)
        \/ FluentdStopInput(c)
        \/ FluentdStopWait(c)
        \/ FluentdCloseQueues(c)
        \/ FluentdUnlock(c)
    \/ TailInitialRead
    \/ ObserverStart
    \/ TailWake
    \/ TailExit
    \/ PollScan
    \/ TcpLoop
    \/ TcpAcceptError
    \/ \E k \in ConnIds :
        \/ TcpAccept(k)
        \/ HandlerScan(k)
        \/ HandlerEof(k)
        \/ HandlerPut(k)
        \/ ClientConnect(k)
        \/ ClientSendUpTo(k, MaxLines)
        \/ ClientClose(k)

SpecTcp == InitTcp /\ [][NextTcp]_vars

(***************************************************************************)
(* Claims about the TcpInput, checked under SpecTcp.                       *)
(***************************************************************************)
\* the orchestrator's Start calls TcpInput.Start and net.Listen fails
BindFails(c) ==
    /\ cpc[c] = "start"
    /\ StartOrder[fidx] = "tcp"
    /\ ~running["tcp"]
    /\ startLog' # startLog
    /\ listener' = "none"

\* C23: when net.Listen fails in TcpInput.Start the running flag stays
\* false and no accept-loop goroutine is created, the orchestrator's Start
\* goes on with the next plugin exactly as after a successful Start, the
\* listener is bound later only by another Start call of the orchestrator,
\* and a Stop of the plugin in that state returns at once: it waits for
\* nothing and changes neither the flag nor the listener.
C23_BindFailureForgotten ==
    /\ [][\A c \in OrchCallers :
            /\ BindFails(c) =>
                  /\ UNCHANGED <<running, wg, wpc, stopReturned, panicked>>
                  /\ fidx' = fidx + 1
                  /\ cpc'[c] = IF fidx = Len(StartOrder) THEN "unlock" ELSE "start"
            /\ (listener = "none" /\ listener' # "none") =>
                  \E d \in OrchCallers : cpc[d] = "start" /\ StartOrder[fidx] = "tcp"
            /\ (cpc[c] = "stop" /\ StopOrder[fidx] = "tcp" /\ listener = "none"
                  /\ stopLog' # stopLog) =>
                  /\ UNCHANGED <<running, wg, wpc, stopReturned, listener>>
                  /\ cpc'[c] # "wait"
                  /\ fidx' = fidx + 1]_vars
    /\ [](listener = "none" =>
             /\ ~running["tcp"]
             /\ wg["tcp"] = 0
             /\ wpc["tcp"] \notin {"run", "accept"})

\* C23 witness: net.Listen failed in this Start, the orchestrator went on to
\* start the TailInput, and a Stop has since passed the TcpInput
C23_Witness ==
    /\ listener = "none"
    /\ startLog = <<"tcp", "tail">>
    /\ stopLog # <<>>
    /\ stopLog[1] = "tcp"
    /\ ~stopReturned["tcp"]
    /\ stopReturned["tail"]

\* C29: while the Stop of the TcpInput has returned and the plugin has not
\* been started again, each handleClient calls Put at most once more; a
\* handler that completes a read exits without putting the line it read; and
\* no connection passes from the listener to a handler.
C29_HandlersAfterStop ==
    /\ [](\A k \in ConnIds : latePuts[k] <= 1)
    /\ [][\A k \in ConnIds :
            (stopReturned["tcp"] /\ stopReturned'["tcp"]) =>
               /\ (conn[k] = "scan" /\ conn'[k] # "scan") =>
                     /\ conn'[k] = "done"
                     /\ UNCHANGED <<ch, accepted, nEvents, latePuts>>
               /\ (conn[k] = "put" /\ conn'[k] # "put") =>
                     /\ conn'[k] = "scan"
                     /\ latePuts[k] = 0
                     /\ latePuts'[k] = IF hline[k] # <<>> THEN 1 ELSE 0
               /\ conn[k] \in {"none", "pending"} => conn'[k] = conn[k]
               /\ wpc'["tcp"] = "exited"]_vars

\* C29 witness: after Stop returned a handler has put the line it held, then
\* read the next line of a client that has not closed, and exited
C29_Witness ==
    \E k \in ConnIds :
        /\ stopReturned["tcp"]
        /\ latePuts[k] = 1
        /\ conn[k] = "done"
        /\ ~peerClosed[k]
        /\ nInput = 2
        /\ nEvents = 1

\* C24: every non-empty line of the appended-to file is read without a
\* further modification of the file: whenever the TailInput runs with its
\* poller waiting for a tick, the last read pass ended without an error and
\* the modification table holds the file's current modification time, so
\* that no scan will report the file as modified until it is modified again,
\* the file holds no non-empty line after the stored offset.
C24_EveryLineRead ==
    (/\ running["tail"]
     /\ ppc = "wait"
     /\ tailLog \in {"saved", "same"}
     /\ lastMod[TrackedPath] = fileMod) => NewLines = <<>>

(***************************************************************************)
(* Claims about saturation in the TailInput, checked under SpecTail.       *)
(***************************************************************************)
\* a read pass that ended without a logged error has offered lines, more of
\* them than the output queue had room for
SaturatedPass ==
    /\ nEvents' # nEvents
    /\ tailLog' \in {"saved", "same"}
    /\ Len(NewLines) > Capacity - QLen(InputQueue("tail"))

InitScan ==
    /\ InitQueues
    /\ InitCallers
    /\ InitFluentd(<<"tail">>, <<>>, <<>>)
    /\ InitPlugins
    /\ InitOutputs
    /\ InitInputs
    /\ InitFilters(CmdConfig)

NextScan ==
    \/ \E c \in {MainCaller} :
         \/ FluentdCall(c)
         \/ FluentdLock(c)
         \/ FluentdStartCheck(c)
         \/ FluentdStartInput(c)
         \/ FluentdStopCheck(c)
         \/ FluentdStopInput(c)
         \/ FluentdStopWait(c)
         \/ FluentdCloseQueues(c)
         \/ FluentdUnlock(c)
    \/ TailInitialRead
    \/ ObserverStart
    \/ TailWake
    \/ TailExit
    \/ PollScan
    \/ AppendFile
    \/ OtherWrite
    \/ OtherRemove
    \/ OtherStatFails

SpecScan == InitScan /\ [][NextScan]_vars

(***************************************************************************)
(* Claims about the FileObserver, checked under SpecScan.                  *)
(***************************************************************************)
\* what a read pass of the TailInput can change
PassVars == <<positions, posFile, tailLog, offered, nEvents, ch, accepted>>

\* the modification table has an entry for the tracked file that is older
\* than the file: the scan that starts now reports modify for it
TrackedModified ==
    /\ lastMod[TrackedPath] # NoEntry
    /\ fileMod > lastMod[TrackedPath]

\* C25: a step in which a read pass of the TailInput has any effect is
\* either the eager pass of Start or a scan that reports modify for the
\* tracked path; so a scan that reports create for the tracked path, and a
\* scan that reports create, modify or delete for the other file only, runs
\* no read pass: it offers no line and leaves the offset, the position file
\* and the queue as they are.
C25_OnlyTrackedModify ==
    [][/\ PassVars' # PassVars =>
             \/ wpc["tail"] = "read" /\ wpc'["tail"] = "obs_start"
             \/ TrackedModified /\ lastMod'[TrackedPath] = fileMod
       /\ (lastMod[TrackedPath] = NoEntry /\ lastMod'[TrackedPath] # NoEntry) =>
             UNCHANGED PassVars
       /\ (otherEvents' # otherEvents /\ ~TrackedModified) =>
             UNCHANGED PassVars]_vars

\* C25 witness: the scans have reported create and then modify for the other
\* file, and create for the tracked file, while the tracked file holds a line
\* that no read pass has read
C25_Witness ==
    /\ otherEvents = <<"create", "modify">>
    /\ lastMod[TrackedPath] = fileMod
    /\ NewLines # <<>>
    /\ offered = <<>>

\* the files the listing of the directory holds, and those of them on which
\* os.Stat succeeds
ListedFiles == {p \in Paths : p = TrackedPath \/ otherFile # Absent}
StatSucceeds == {p \in ListedFiles : p = TrackedPath \/ otherFile # StatFails}

\* a step in which FileObserver.scan ran: the scan of observer.Start, or a
\* scan of the poller that had an effect or ended the poller
ScanStep ==
    \/ wpc["tail"] = "obs_start" /\ wpc'["tail"] # "obs_start" /\ ~obsRunning
    \/ ppc = "wait" /\ <<lastMod, otherEvents, ppc>>' # <<lastMod, otherEvents, ppc>>

\* the event the claim expects a scan to report for the path p, or "none"
Classified(p) ==
    IF p \in StatSucceeds /\ lastMod[p] = NoEntry THEN "create"
    ELSE IF p \in StatSucceeds /\ ModTime(p) > lastMod[p] THEN "modify"
    ELSE IF p \notin ListedFiles /\ lastMod[p] # NoEntry THEN "delete"
    ELSE "none"

DrainLines == {<<"a">>, <<"b">>}

\* the upstream stage puts an event on the input queue
ProduceUntilStop ==
    /\ \A c \in OrchCallers : cop[c] # "Stop"
    /\ nEvents < MaxEvents
    /\ nEvents' = nEvents + 1
    /\ \E line \in DrainLines :
         QueuePut("inputQueue", NewEvent(nEvents + 1, TagApp, MessageRecord(line)))
    /\ UNCHANGED <<gvars, fvars, pvars, ovars, ivars>>

InitDrain ==
    /\ InitQueues
    /\ InitCallers
    /\ InitFluentd(<<>>, <<"grep">>, <<"file">>)
    /\ InitPlugins
    /\ InitOutputs
    /\ InitInputs
    /\ InitFilters(CmdConfig)

NextDrain ==
    \/ \E c \in {MainCaller} :
        \/ FluentdCall(c)
        \/ FluentdLock(c)
        \/ FluentdStartCheck(c)
        \/ FluentdStartOutput(c)
        \/ FluentdStartFilter(c)
        \/ FluentdStopCheck(c)
        \/ FluentdStopFilter(c)
        \/ FluentdStopOutput(c)
        \/ FluentdStopWait(c)
        \/ FluentdCloseQueues(c)
        \/ FluentdUnlock(c)
    \/ \E o \in {"file"} :
        \/ OutLoop(o)
        \/ OutTick(o)
        \/ OutGet(o)
        \/ OutAdded(o)
        \/ OutFlush(o)
        \/ OutFinal(o)
        \/ OutExit(o)
        \/ Tick(o)
    \/ \E f \in {"grep"} :
        \/ FilLoop(f)
        \/ FilGet(f)
        \/ FilForward(f)
    \/ ProduceUntilStop

SpecDrain == InitDrain /\ [][NextDrain]_vars

(***************************************************************************)
(* Claims about shutdown, checked under SpecDrain.                         *)
(***************************************************************************)
\* Fluentd.Stop returns to the goroutine c after it stopped the plugins
StopReturns(c) ==
    /\ cop[c] = "Stop"
    /\ cpc[c] = "unlock"
    /\ cpc'[c] = "idle"
    /\ stopLog = StopOrder

\* the event was taken from the filter's input queue and then dropped by the
\* filter's keep/drop decision or passed to the output's Flush
Processed(e) ==
    /\ e \in Range(delivered["inputQueue"])
    /\ \/ Forwarded("grep", e) = Nil
       \/ Forwarded("grep", e) \in Range(Flatten(flushes["file"]))

\* C28: when Fluentd.Stop returns, every event that was in a pipeline queue
\* when it was called has been dequeued and dropped by a filter or passed to
\* an output's Flush.  No event enters the pipeline while Stop runs, so
\* these are all events the input queue has accepted, and both queues are
\* empty.
C28_QueuedEventsProcessed ==
    [][\A c \in OrchCallers :
          StopReturns(c) =>
             /\ \A i \in 1..Len(accepted["inputQueue"]) :
                   Processed(accepted["inputQueue"][i])
             /\ QLen("inputQueue") = 0
             /\ QLen("outputQueue") = 0]_vars

(***************************************************************************)
(* SpecStop: the pipeline of Spec with the scheduling the runtime          *)
(* provides: a goroutine that can take a step eventually takes one.  This  *)
(* holds for the goroutine inside Fluentd.Start or Fluentd.Stop, for each  *)
(* plugin worker, for the accept loop, whose Accept returns once the       *)
(* listener is closed, and for the poller, whose ticker keeps firing and   *)
(* whose read of f.running yields the value Stop wrote after finitely many *)
(* ticks.  Nothing is assumed of the connection handlers, of the clients,  *)
(* or of the goroutine of cmd.run between two calls.  A client connects    *)
(* and sends lines and does not close; the tracked file is not written to; *)
(* the run is shorter than one tick of the output.                         *)
(***************************************************************************)
\* a step of the goroutine c inside Fluentd.Start or Fluentd.Stop
OrchStep(c) ==
    \/ FluentdLock(c)
    \/ FluentdStartCheck(c)
    \/ FluentdStartOutput(c)
    \/ FluentdStartFilter(c)
    \/ FluentdStartInput(c)
    \/ FluentdStopCheck(c)
    \/ FluentdStopInput(c)
    \/ FluentdStopFilter(c)
    \/ FluentdStopOutput(c)
    \/ FluentdStopWait(c)
    \/ FluentdCloseQueues(c)
    \/ FluentdUnlock(c)

\* a step of the goroutine of the filter f
FilterStep(f) == FilLoop(f) \/ FilGet(f) \/ FilForward(f)

\* a step of the lifecycle goroutine of the TailInput
TailStep == TailInitialRead \/ ObserverStart \/ TailWake \/ TailExit

\* a step of the accept loop of the TcpInput
AcceptStep == TcpLoop \/ TcpAcceptError \/ \E k \in ConnIds : TcpAccept(k)

\* a step of the handleClient goroutine of the connection k, whose client
\* does not close
HandlerStep(k) == HandlerScan(k) \/ HandlerPut(k)

\* a step of the goroutine of the output o in a run with fewer events than
\* bufferSize and no tick
OutputStepBelowSize(o) ==
    \/ OutLoop(o)
    \/ OutGet(o)
    \/ OutAdded(o)
    \/ OutFinal(o)
    \/ OutExit(o)

NextStop ==
    \/ FluentdCall(MainCaller)
    \/ OrchStep(MainCaller)
    \/ OutputStepBelowSize("file")
    \/ FilterStep("grep")
    \/ TailStep
    \/ PollScan
    \/ AcceptStep
    \/ \E k \in ConnIds :
        \/ HandlerStep(k)
        \/ ClientConnect(k)
        \/ ClientSend(k)

FairStop ==
    /\ WF_vars(OrchStep(MainCaller))
    /\ WF_vars(OutputStepBelowSize("file"))
    /\ WF_vars(FilterStep("grep"))
    /\ WF_vars(TailStep)
    /\ WF_vars(PollScan)
    /\ WF_vars(AcceptStep)

SpecStop == Init /\ [][NextStop]_vars /\ FairStop

(***************************************************************************)
(* Claims about termination of shutdown, checked under SpecStop.           *)
(***************************************************************************)
\* every plugin's running flag is false and every joined worker has exited
AllStopped ==
    /\ ~frunning
    /\ \A p \in Range(inputs \o filters \o outputs) :
          /\ ~running[p]
          /\ wg[p] = 0
          /\ Quiescent(p)
    /\ ~obsRunning
    /\ obsWg = 0

\* C27: whenever Fluentd.Stop is called on a running pipeline, the call
\* eventually returns with every plugin's running flag false and every
\* joined worker exited, whatever the workers, the accept loop, the
\* connection handlers and the poller were doing when it was called.
C27_StopTerminates ==
    \A c \in {MainCaller} :
        (cop[c] = "Stop" /\ cpc[c] = "lock" /\ frunning)
            ~> (cop[c] = "Stop" /\ cpc[c] = "idle" /\ AllStopped)

\* C27 witness: Stop has returned with everything stopped while the handler
\* of an open connection is still blocked in its read
C27_Witness ==
    /\ cop[MainCaller] = "Stop"
    /\ cpc[MainCaller] = "idle"
    /\ stopLog = StopOrder
    /\ AllStopped
    /\ listener = "closed"
    /\ \E k \in ConnIds : conn[k] = "scan" /\ inbox[k] = <<>> /\ ~peerClosed[k]

(***************************************************************************)
(* SpecFlush: one FileOutput started and stopped by cmd.run on a file      *)
(* system where os.MkdirAll and os.OpenFile may fail, and an upstream      *)
(* stage that puts events on the output's queue.                           *)
(***************************************************************************)
OutputStepMayFail(o) ==
    \/ OutLoop(o)
    \/ OutTick(o)
    \/ OutGet(o)
    \/ OutAdded(o)
    \/ OutFlushMayFail(o)
    \/ OutFinal(o)
    \/ OutExitMayFail(o)

NextFlush ==
    \/ \E c \in {MainCaller} :
        \/ FluentdCall(c)
        \/ FluentdLock(c)
        \/ FluentdStartCheck(c)
        \/ FluentdStartOutput(c)
        \/ FluentdStopCheck(c)
        \/ FluentdStopOutput(c)
        \/ FluentdStopWait(c)
        \/ FluentdCloseQueues(c)
        \/ FluentdUnlock(c)
    \/ OutputStepMayFail("file")
    \/ Tick("file")
    \/ TimePasses("file")
    \/ Produce

SpecFlush == InitOutput /\ [][NextFlush]_vars

\* this step is a Flush call of output o that returns an error
FlushFails(o) == flushErrs'[o] # flushErrs[o]

\* this step is a GetBuffer call of output o that takes a non-empty batch
TakesBatch(o) == batch'[o] # batch[o] /\ batch'[o] # <<>>

\* event e is in one of the batches
InBatches(e, bs) == \E i \in 1..Len(bs) : \E j \in 1..Len(bs[i]) : bs[i][j] = e

\* C31: a failed flush is not retried.  Taking a batch leaves the buffer
\* empty and resets the last-flush time; when the Flush of that batch returns
\* an error the buffer is still empty and stays so, the last-flush time is
\* not touched, the batch is dropped, the running flag is not cleared and a
\* goroutine inside the loop goes back to the loop head; and at every moment
\* an event of a failed batch is neither buffered nor held for a Flush, and
\* has been passed to Flush exactly once.
C31_FailedFlushNotRetried ==
    /\ [][\A o \in Range(outputs) :
            /\ TakesBatch(o) => buffer'[o] = <<>> /\ ~elapsed'[o]
            /\ FlushFails(o) =>
                  /\ buffer[o] = <<>> /\ buffer'[o] = <<>>
                  /\ elapsed'[o] = elapsed[o]
                  /\ batch'[o] = <<>>
                  /\ running'[o] = running[o]
                  /\ wpc[o] \in {"tick_flush", "add_flush"} => wpc'[o] = "run"]_vars
    /\ [](\A o \in Range(outputs) :
            \A i \in 1..Len(flushErrs[o]) : \A j \in 1..Len(flushErrs[o][i]) :
                LET e == flushErrs[o][i][j]
                    all == Flatten(flushes[o])
                IN /\ ~InBatches(e, <<buffer[o], batch[o]>>)
                   /\ Cardinality({n \in 1..Len(all) : all[n] = e}) = 1)

\* C31 witness: the first Flush of a running output returned an error, and
\* the output is still running and has since passed a later batch to Flush
C31_Witness ==
    \E o \in Range(outputs) :
        /\ running[o]
        /\ Len(flushErrs[o]) >= 1 /\ Len(flushes[o]) >= 2
        /\ flushErrs[o][1] = flushes[o][1]
        /\ wpc[o] = "run"

(***************************************************************************)
(* Claims about several consumers of one queue, checked under SpecQueue,   *)
(* where the goroutines call Get (and Put and Close) in every              *)
(* interleaving of their statements.                                       *)
(***************************************************************************)
\* event e is an element of the sequence s
Holds(s, e) == \E i \in 1..Len(s) : s[i] = e

\* the Get call of g has decided to return ok=true
GotEvent(g) == gpc[g] \in {"unlock", "idle"} /\ gcall[g].op = "Get" /\ gret[g].ok

\* C32: every Get that returns ok=true returns a non-nil event that a Put
\* had accepted before and that no Get had returned before; no event is
\* returned by two Gets, so the most recent successful Gets of two
\* goroutines hold different events.
C32_ExactlyOnceHandOff ==
    /\ [][\A g \in Callers : (GetDecides(g) /\ gret'[g].ok) =>
            /\ gret'[g].event # Nil
            /\ Holds(accepted[TestQ], gret'[g].event)
            /\ ~Holds(delivered[TestQ], gret'[g].event)]_vars
    /\ [](\A i, j \in 1..Len(delivered[TestQ]) :
            delivered[TestQ][i] = delivered[TestQ][j] => i = j)
    /\ [](\A g, h \in Callers :
            (g # h /\ GotEvent(g) /\ GotEvent(h)) => gret[g].event # gret[h].event)

\* C32 witness: two goroutines have each got an event from the queue, one of
\* them still inside Get
C32_Witness ==
    \E g, h \in Callers :
        /\ g # h
        /\ GotEvent(g) /\ gpc[g] = "unlock"
        /\ GotEvent(h) /\ gpc[h] = "idle"
        /\ Len(delivered[TestQ]) = 2

====
